---- MODULE Spec2Model ----
(***************************************************************************)
(* A model of boot-go/boot: the typed event bus (eventBus) and the         *)
(* dependency resolver (resolveDependency / processWiring).                *)
(*                                                                         *)
(* Spec         the event bus driven by one caller: every API call is one  *)
(*              action.                                                    *)
(* SpecConc     the event bus driven by several goroutines: Publish and    *)
(*              activate advance one shared-memory access at a time.       *)
(* SpecResolve  the resolver on a registry, one step of the recursion at a *)
(*              time.                                                      *)
(***************************************************************************)
EXTENDS Integers, Sequences, FiniteSets, TLC

(***************************************************************************)
(* Bounds of the model.                                                    *)
(***************************************************************************)
MaxSubscribe == 2
MaxQueue == 2
MaxDepth == 5
MaxFields == 2

VARIABLES
    isStarted,   \* eventBus.isStarted
    queue,       \* eventBus.queue
    handlers,    \* eventBus.handlers: routing key -> slice header [ptr, len]
    arrays,      \* the backing arrays the slice headers point into
    nextId,      \* number of busListener values allocated so far
    replayed,    \* replayed[i]: queue[i] has been replayed by an earlier activate
    last,        \* the API call that returned last: [op, arg, ret, invoked]
    th,          \* per goroutine: the frame of its Publish or activate call
    lock,        \* eventBus.lock: [w: the writer, pending: writers in Lock(), r: read locks per goroutine]
    fields,      \* registry: per component, the types of its "wire" fields
    initDoes,    \* registry: per component, what its Init does
    state,       \* componentManager.state per registry entry
    wired,       \* per component, the component set into each "wire" field
    stack,       \* the running calls of resolveDependency, innermost last
    initOrder,   \* the components whose Init was called, in order
    resolved,    \* the lists the successful resolveDependency calls returned, joined
    res,         \* what the last call of resolveDependency by the caller returned
    input,       \* the arguments of the function under test
    output,      \* what the function returned for them, NIL before the call
    phase,       \* Session.phase
    factories,   \* Session.factories
    registry,    \* registry.entries: qualified type name -> registration name -> entry
    sret,        \* the call of the session or the registry that returned last: [op, args, err]
    goPc,        \* Session.Go: where the calling goroutine stands
    instances,   \* Session.Go: the componentManagers resolveComponentDependencies returned
    procs,       \* per componentManager: where the goroutine of start() stands
    wg,          \* registry.executionWaitGroup: its counter
    signals,     \* Options.shutdownChannel: the signals it holds
    waiter,      \* where the goroutine of waitUntilAllComponentsStopped stands
    trace,       \* Session.Go: the calls of DoMain and of Stop, begun and returned, in order
    shut,        \* Session.Shutdown called by the application: [calls, blocked]
    option       \* Session.option: [DoMain, DoShutdown]

busVars == <<isStarted, queue, handlers, arrays, nextId, replayed, last>>

regVars == <<fields, initDoes, state, wired, stack, initOrder, resolved, res>>

fnVars == <<input, output>>

sesVars == <<phase, factories, registry, sret>>

goVars == <<goPc, instances, procs, wg, signals, waiter, trace, shut, option>>

vars == <<busVars, th, regVars, lock, fnVars, sesVars, goVars>>

Threads == {"g1", "g2"}

\* The goroutine of Session.Go, which calls activate.
Main == "g1"

(***************************************************************************)
(* Values.  Every Go value of the model is a record with a kind.           *)
(***************************************************************************)
NIL == [kind |-> "nil"]

TypeA == [pkg |-> "boot", name |-> "A"]
TypeB == [pkg |-> "boot", name |-> "B"]

\* The predeclared type int: reflect gives it the name int and no package path.
TypeInt == [pkg |-> "", name |-> "int"]

Event(t, v) == [kind |-> "struct", type |-> t, val |-> v]

Events == {Event(TypeA, 1), Event(TypeB, 1)}

\* A value of type int.
IntEvent == [kind |-> "int", type |-> TypeInt, val |-> 1]

\* A handler function: its name (runtime.FuncForPC), its parameter type, its
\* result shape and what its body does when called.
Func(n, in, numIn, out, does) ==
    [kind |-> "func", name |-> n, in |-> in, numIn |-> numIn, out |-> out, does |-> does]

hOk == Func("hOk", TypeA, 1, "error", "ok")
hErr == Func("hErr", TypeA, 1, "error", "err")
hPanic == Func("hPanic", TypeA, 1, "none", "panic")
hB == Func("hB", TypeB, 1, "error", "err")
hTwoArgs == Func("hTwoArgs", TypeA, 2, "none", "ok")
hInt == Func("hInt", TypeInt, 1, "none", "ok")

\* Values Subscribe and Unsubscribe reject: a value that is no function, a
\* function with a result that is no error, one with two results, and one
\* whose parameter type has neither a package nor a name ([]string).
notAFunc == [kind |-> "string", type |-> [pkg |-> "", name |-> "string"], val |-> 1]
hOtherResult == Func("hOtherResult", TypeA, 1, "other", "ok")
hTwoResults == Func("hTwoResults", TypeA, 1, "many", "ok")
hUnnamedParam == Func("hUnnamedParam", [pkg |-> "", name |-> ""], 1, "none", "ok")

Handlers == {hOk, hErr, hPanic, hB, hTwoArgs}

\* The values of every shape that Subscribe and Unsubscribe are called with.
Shapes ==
    {hOk, hErr, hB, hInt, hTwoArgs, NIL, notAFunc, hOtherResult, hTwoResults, hUnnamedParam}

\* A text is a sequence of pieces; the empty text has no piece.
Str(s) == IF s = "" THEN <<>> ELSE <<s>>

QualifiedName(v) ==
    CASE v.kind = "nil" -> <<"nil">>
      [] v.kind = "ptr" -> Str(v.type.pkg) \o <<"/">> \o Str(v.type.name)
      [] v.kind = "func" -> <<v.name>>
      [] OTHER -> (IF v.type.pkg # "" THEN <<v.type.pkg, "/">> ELSE <<>>) \o Str(v.type.name)

(***************************************************************************)
(* Errors and results.                                                     *)
(***************************************************************************)
RetNil == [kind |-> "nil", failedListeners |-> <<>>, msg |-> ""]
RetError(m) == [kind |-> "error", failedListeners |-> <<>>, msg |-> m]
RetPublishError(fl) == [kind |-> "PublishError", failedListeners |-> fl, msg |-> ""]
RetBool(b) == [kind |-> "bool", failedListeners |-> <<>>, msg |-> IF b THEN "true" ELSE "false"]

ErrHandlerMustNotBeNil == "handler must not be nil"
ErrEventMustNotBeNil == "event must not be nil"
ErrUnknownEventType == "couldn't determiner the message type"
ErrHandlerNotFound == "handler not found to remove"

(***************************************************************************)
(* busListener and the slices of the handler map.                          *)
(***************************************************************************)
NilListener == [id |-> 0, handler |-> NIL, qualifiedName |-> <<>>, eventTypeName |-> <<>>]

\* newBusListener without the check of the number of parameters.
newBusListenerErrOfAnyArity(handler) ==
    CASE handler.kind = "nil" -> ErrHandlerMustNotBeNil
      [] handler.kind # "func" -> "handler is not a function"
      [] handler.out = "other" -> "handler function return type is not an error"
      [] handler.out = "many" -> "handler function has more than one return value"
      [] handler.in.pkg = "" /\ handler.in.name = "" -> ErrUnknownEventType
      [] OTHER -> ""

\* The validation of newBusListener: "" when the handler is accepted.
newBusListenerErr(handler) ==
    CASE handler.kind = "nil" -> ErrHandlerMustNotBeNil
      [] handler.kind # "func" -> "handler is not a function"
      [] handler.numIn # 1 -> "handler function has unsupported argument"
      [] handler.out = "other" -> "handler function return type is not an error"
      [] handler.out = "many" -> "handler function has more than one return value"
      [] handler.in.pkg = "" /\ handler.in.name = "" -> ErrUnknownEventType
      [] OTHER -> ""

newBusListener(handler, id) ==
    [id |-> id,
     handler |-> handler,
     qualifiedName |-> QualifiedName(handler),
     eventTypeName |-> Str(handler.in.pkg) \o <<"/">> \o Str(handler.in.name)]

NilSlice == [ptr |-> 0, len |-> 0]

\* bus.handlers[key]: the zero value (a nil slice) for a missing key.
Lookup(hs, key) == IF key \in DOMAIN hs THEN hs[key] ELSE NilSlice

Cap(ars, hdr) == IF hdr.ptr = 0 THEN 0 ELSE Len(ars[hdr.ptr])

\* The elements a slice header shows of its backing array.
Elems(ars, hdr) == IF hdr.ptr = 0 THEN <<>> ELSE SubSeq(ars[hdr.ptr], 1, hdr.len)

SetKey(f, k, v) == [x \in DOMAIN f \cup {k} |-> IF x = k THEN v ELSE f[x]]

\* Go's append on a slice of pointers: in place while the capacity lasts,
\* else into a new array of doubled capacity.
GoAppend(ars, hdr, x) ==
    IF hdr.len < Cap(ars, hdr)
    THEN [arrays |-> [ars EXCEPT ![hdr.ptr] = [@ EXCEPT ![hdr.len + 1] = x]],
          hdr |-> [ptr |-> hdr.ptr, len |-> hdr.len + 1]]
    ELSE LET newCap == IF Cap(ars, hdr) = 0 THEN 1 ELSE 2 * Cap(ars, hdr)
             old == Elems(ars, hdr)
             new == [i \in 1..newCap |->
                        IF i <= hdr.len THEN old[i]
                        ELSE IF i = hdr.len + 1 THEN x ELSE NilListener]
         IN [arrays |-> Append(ars, new),
             hdr |-> [ptr |-> Len(ars) + 1, len |-> hdr.len + 1]]

\* The garbage collector: a backing array no slice header in `live` points to
\* is freed.
Collect(ars, live) ==
    [p \in 1..Len(ars) |-> IF \E hdr \in live : hdr.ptr = p THEN ars[p] ELSE <<>>]

Headers(hs) == {hs[k] : k \in DOMAIN hs}

\* The slice headers goroutines hold between their lookup and their copy.
Held == {th[t].hdr : t \in {u \in Threads : th[u].pc = "copy"}}

\* findHandler returning the last listener with the handler's qualified name.
findLastHandler(hs, ars, eventTypeName, handler) ==
    LET list == Elems(ars, Lookup(hs, eventTypeName))
        hits == {i \in 1..Len(list) : list[i].qualifiedName = QualifiedName(handler)}
    IN IF eventTypeName \in DOMAIN hs /\ hits # {}
       THEN (CHOOSE i \in hits : \A j \in hits : i >= j) - 1
       ELSE -1

\* findHandler: the index (from 0) of the first listener with the handler's
\* qualified name, -1 when there is none.
findHandler(hs, ars, eventTypeName, handler) ==
    LET list == Elems(ars, Lookup(hs, eventTypeName))
        hits == {i \in 1..Len(list) : list[i].qualifiedName = QualifiedName(handler)}
    IN IF eventTypeName \in DOMAIN hs /\ hits # {}
       THEN (CHOOSE i \in hits : \A j \in hits : i <= j) - 1
       ELSE -1

\* removeHandler without the range check on the index: an index out of range
\* removes the first listener.
removeHandlerUnchecked(hs, ars, eventTypeName, index) ==
    LET hdr == Lookup(hs, eventTypeName)
        l == hdr.len
        at == IF 0 <= index /\ index < l THEN index ELSE 0
        arr == ars[hdr.ptr]
        shifted == [i \in 1..Len(arr) |->
                       IF i >= at + 1 /\ i < l THEN arr[i + 1]
                       ELSE IF i = l THEN NilListener ELSE arr[i]]
    IN [ok |-> TRUE,
        handlers |-> [hs EXCEPT ![eventTypeName] = [ptr |-> hdr.ptr, len |-> l - 1]],
        arrays |-> [ars EXCEPT ![hdr.ptr] = shifted]]

\* removeHandler: shifts the tail of the backing array one slot down, in
\* place, clears the last slot and shortens the slice.
removeHandler(hs, ars, eventTypeName, index) ==
    LET hdr == Lookup(hs, eventTypeName)
        l == hdr.len
    IN IF ~(0 <= index /\ index < l)
       THEN [ok |-> FALSE, handlers |-> hs, arrays |-> ars]
       ELSE LET arr == ars[hdr.ptr]
                shifted == [i \in 1..Len(arr) |->
                               IF i >= index + 1 /\ i < l THEN arr[i + 1]
                               ELSE IF i = l THEN NilListener ELSE arr[i]]
            IN [ok |-> TRUE,
                handlers |-> [hs EXCEPT ![eventTypeName] = [ptr |-> hdr.ptr, len |-> l - 1]],
                arrays |-> [ars EXCEPT ![hdr.ptr] = shifted]]

(***************************************************************************)
(* PublishError: failedListeners maps an event to a map from listener to   *)
(* error.                                                                  *)
(***************************************************************************)
newPublicError == <<>>

hasErrors(fl) == DOMAIN fl # {}

addError(fl, e, bl, pubErr) ==
    LET m == IF e \in DOMAIN fl THEN fl[e] ELSE <<>>
    IN SetKey(fl, e, SetKey(m, bl, pubErr))

RECURSIVE addAll(_, _, _, _)
addAll(fl, e, m, keys) ==
    IF keys = {} THEN fl
    ELSE LET k == CHOOSE k \in keys : TRUE
         IN addAll(addError(fl, e, k, m[k]), e, m, keys \ {k})

RECURSIVE addPublishErrorFrom(_, _, _)
addPublishErrorFrom(fl, pubErr, evs) ==
    IF evs = {} THEN fl
    ELSE LET e == CHOOSE e \in evs : TRUE
         IN addPublishErrorFrom(addAll(fl, e, pubErr[e], DOMAIN pubErr[e]), pubErr, evs \ {e})

addPublishError(fl, pubErr) == addPublishErrorFrom(fl, pubErr, DOMAIN pubErr)

(***************************************************************************)
(* Dispatch.                                                               *)
(***************************************************************************)
\* listener.handler.Call: what one call of a listener's handler does.  A nil
\* listener is a nil pointer dereference, a runtime error.
Call(listener) ==
    IF listener = NilListener
    THEN [kind |-> "panic", value |-> "error", err |-> "nil pointer dereference"]
    ELSE CASE listener.handler.does = "panic" ->
                [kind |-> "panic", value |-> "string", err |-> "panic in handler"]
           [] listener.handler.does = "err" /\ listener.handler.out = "error" ->
                [kind |-> "return", value |-> "error", err |-> "handler failed"]
           [] OTHER ->
                [kind |-> "return", value |-> "nil", err |-> ""]

\* publish: calls the listeners in order; a returned error is added to the
\* aggregate; a panic leaves the loop.  Every call is noted as <<listener id,
\* event, slot>>, slot being the event's place in the queue (0: not queued).
RECURSIVE publishFrom(_, _, _, _, _)
publishFrom(event, slot, listeners, i, acc) ==
    IF i > Len(listeners)
    THEN acc
    ELSE LET r == Call(listeners[i])
             inv == Append(acc.invoked, <<listeners[i].id, event, slot>>)
         IN IF r.kind = "panic"
            THEN [panic |-> TRUE, value |-> r.value, err |-> r.err,
                  errPublish |-> acc.errPublish, invoked |-> inv]
            ELSE publishFrom(event, slot, listeners, i + 1,
                    [panic |-> FALSE, value |-> "", err |-> "",
                     errPublish |-> IF r.value = "error"
                                    THEN addError(acc.errPublish, event, listeners[i], r.err)
                                    ELSE acc.errPublish,
                     invoked |-> inv])

\* publish walking the listeners from the last one to the first.
publishBackwards(event, slot, listeners) ==
    publishFrom(event, slot, [i \in 1..Len(listeners) |-> listeners[Len(listeners) + 1 - i]], 1,
        [panic |-> FALSE, value |-> "", err |-> "", errPublish |-> newPublicError, invoked |-> <<>>])

\* publish: the loop over the listeners from the first one on.
publish(event, slot, listeners) ==
    publishFrom(event, slot, listeners, 1,
        [panic |-> FALSE, value |-> "", err |-> "", errPublish |-> newPublicError, invoked |-> <<>>])

\* The deferred recover of Publish: the panic value becomes the returned error.
Recovered(value, err) ==
    CASE value = "error" -> RetError(err)
      [] value = "string" -> RetError(err)
      [] OTHER -> RetError("unsupported error type found")

\* Publish on a started bus: [ret, invoked].
Dispatch(hs, ars, event, slot) ==
    LET eventType == QualifiedName(event)
        hdr == Lookup(hs, eventType)
    IN IF eventType \in DOMAIN hs /\ 0 < hdr.len
       THEN LET copyHandlers == Elems(ars, hdr)
                p == publish(event, slot, copyHandlers)
            IN IF p.panic
               THEN [ret |-> Recovered(p.value, p.err), invoked |-> p.invoked]
               ELSE IF hasErrors(p.errPublish)
                    THEN [ret |-> RetPublishError(p.errPublish), invoked |-> p.invoked]
                    ELSE [ret |-> RetNil, invoked |-> p.invoked]
       ELSE [ret |-> RetNil, invoked |-> <<>>]

\* sync.RWMutex{}: no writer, no goroutine waiting in Lock(), no reader.
Unlocked == [w |-> "none", pending |-> {}, r |-> [t \in Threads |-> 0]]

Done(op, arg, ret, invoked) == [op |-> op, arg |-> arg, ret |-> ret, invoked |-> invoked]

(***************************************************************************)
(* The API of the bus, one action per call.                                *)
(***************************************************************************)
eventBusInit ==
    /\ isStarted' = FALSE
    /\ last' = Done("Init", NIL, RetNil, <<>>)
    /\ UNCHANGED <<queue, handlers, arrays, nextId, replayed>>

\* The error Subscribe returns.
SubscribeRet(handler) ==
    IF newBusListenerErr(handler) # "" THEN RetError(newBusListenerErr(handler)) ELSE RetNil

Subscribe(handler) ==
    IF newBusListenerErr(handler) # ""
    THEN UNCHANGED <<isStarted, queue, handlers, arrays, nextId, replayed>>
    ELSE LET eventHandler == newBusListener(handler, nextId + 1)
             a == GoAppend(arrays, Lookup(handlers, eventHandler.eventTypeName), eventHandler)
         IN /\ nextId < MaxSubscribe
            /\ nextId' = nextId + 1
            /\ handlers' = SetKey(handlers, eventHandler.eventTypeName, a.hdr)
            /\ arrays' = Collect(a.arrays, Headers(handlers') \cup Held)
            /\ UNCHANGED <<isStarted, queue, replayed>>

\* The result of HasHandler.
HasHandlerRet(x) ==
    LET eventType == QualifiedName(x)
    IN IF eventType \in DOMAIN handlers THEN handlers[eventType].len > 0 ELSE FALSE

HasHandler(x) == UNCHANGED <<isStarted, queue, handlers, arrays, nextId, replayed>>

\* What Unsubscribe does to the handler map, and the error it returns.
unsubscribe(hs, ars, handler) ==
    IF newBusListenerErr(handler) # ""
    THEN [ret |-> RetError(newBusListenerErr(handler)), handlers |-> hs, arrays |-> ars]
    ELSE LET key == newBusListener(handler, 0).eventTypeName
         IN IF key \in DOMAIN hs /\ hs[key].len > 0
            THEN LET r == removeHandler(hs, ars, key, findHandler(hs, ars, key, handler))
                 IN [ret |-> IF r.ok THEN RetNil ELSE RetError(ErrHandlerNotFound),
                     handlers |-> r.handlers, arrays |-> r.arrays]
            ELSE [ret |-> RetError("eventType doesn't exist"), handlers |-> hs, arrays |-> ars]

Unsubscribe(handler) ==
    /\ handlers' = unsubscribe(handlers, arrays, handler).handlers
    /\ arrays' = unsubscribe(handlers, arrays, handler).arrays
    /\ UNCHANGED <<isStarted, queue, nextId, replayed>>

\* Publish without the return after the event is queued: the dispatch runs
\* on a bus that is not started as well.
PublishWithoutReturn(event) ==
    /\ IF event = NIL
       THEN /\ last' = Done("Publish", event, RetError(ErrEventMustNotBeNil), <<>>)
            /\ UNCHANGED <<queue, replayed>>
       ELSE LET d == Dispatch(handlers, arrays, event, 0)
            IN IF ~isStarted
               THEN /\ Len(queue) < MaxQueue
                    /\ queue' = Append(queue, event)
                    /\ replayed' = Append(replayed, FALSE)
                    /\ last' = Done("Publish", event, d.ret, d.invoked)
               ELSE /\ last' = Done("Publish", event, d.ret, d.invoked)
                    /\ UNCHANGED <<queue, replayed>>
    /\ UNCHANGED <<isStarted, handlers, arrays, nextId>>

\* Publish: a nil event is an error; a bus that is not started queues the
\* event and returns nil; a started bus dispatches.
Publish(event) ==
    /\ IF event = NIL
       THEN /\ last' = Done("Publish", event, RetError(ErrEventMustNotBeNil), <<>>)
            /\ UNCHANGED <<queue, replayed>>
       ELSE IF ~isStarted
            THEN /\ Len(queue) < MaxQueue
                 /\ queue' = Append(queue, event)
                 /\ replayed' = Append(replayed, FALSE)
                 /\ last' = Done("Publish", event, RetNil, <<>>)
            ELSE LET d == Dispatch(handlers, arrays, event, 0)
                 IN /\ last' = Done("Publish", event, d.ret, d.invoked)
                    /\ UNCHANGED <<queue, replayed>>
    /\ UNCHANGED <<isStarted, handlers, arrays, nextId>>

\* The replay loop of activate over the queue from position i on.
RECURSIVE replayFrom(_, _, _, _, _)
replayFrom(hs, ars, q, i, acc) ==
    IF i > Len(q)
    THEN acc
    ELSE LET d == Dispatch(hs, ars, q[i], i)
             inv == acc.invoked \o d.invoked
             cnt == [acc.replayed EXCEPT ![i] = TRUE]
         IN IF d.ret.kind = "nil"
            THEN replayFrom(hs, ars, q, i + 1,
                            [acc EXCEPT !.invoked = inv, !.replayed = cnt])
            ELSE IF d.ret.kind = "PublishError"
                 THEN replayFrom(hs, ars, q, i + 1,
                        [acc EXCEPT !.invoked = inv, !.replayed = cnt,
                                    !.pubErr = addPublishError(@, d.ret.failedListeners)])
                 ELSE [acc EXCEPT !.invoked = inv, !.replayed = cnt,
                                  !.aborted = TRUE, !.err = d.ret]

activate ==
    /\ isStarted' = TRUE
    /\ LET r == replayFrom(handlers, arrays, queue, 1,
                    [invoked |-> <<>>, replayed |-> replayed, pubErr |-> newPublicError,
                     aborted |-> FALSE, err |-> RetNil])
       IN /\ replayed' = r.replayed
          /\ last' = Done("activate", NIL,
                          IF r.aborted THEN r.err
                          ELSE IF hasErrors(r.pubErr) THEN RetPublishError(r.pubErr)
                          ELSE RetNil,
                          r.invoked)
    /\ UNCHANGED <<queue, handlers, arrays, nextId>>

(***************************************************************************)
(* Specification of the bus under one caller.                              *)
(***************************************************************************)
BusInit ==
    /\ isStarted = FALSE
    /\ queue = <<>>
    /\ handlers = <<>>
    /\ arrays = <<>>
    /\ nextId = 0
    /\ replayed = <<>>
    /\ last = Done("newEventbus", NIL, RetNil, <<>>)
    /\ lock = Unlocked

\* The goroutines and the registry at rest.
NoThreads == th = [t \in Threads |-> [pc |-> "idle"]]

NoRegistry ==
    /\ fields = <<>> /\ initDoes = <<>> /\ state = <<>> /\ wired = <<>>
    /\ stack = <<>> /\ initOrder = <<>> /\ resolved = <<>> /\ res = <<>>

\* Where the goroutine that called Session.Go stands: the statement and the
\* loop counter.
GoAt(at, i) == [at |-> at, i |-> i]

\* The options of NewSession: DoMain waits for a signal on the shutdown
\* channel and DoShutdown sends one.
DefaultOptions == [DoMain |-> "default", DoShutdown |-> "default"]

\* The session as NewSession leaves it, the two factories of the runtime and
\* the event bus apart, and no function under test.
NoSession ==
    /\ phase = "initializing" /\ factories = <<>> /\ registry = <<>>
    /\ sret = [op |-> "NewSession", args |-> [none |-> TRUE], err |-> ""]
    /\ goPc = GoAt("idle", 0) /\ instances = <<>> /\ procs = <<>> /\ wg = 0
    /\ signals = 0 /\ waiter = "none" /\ trace = <<>>
    /\ shut = [calls |-> 0, blocked |-> 0]
    /\ option = DefaultOptions

NoCall == input = NIL /\ output = NIL /\ NoSession

Init == BusInit /\ NoThreads /\ NoRegistry /\ NoCall

Next ==
    \/ eventBusInit /\ UNCHANGED <<th, regVars, lock, fnVars, sesVars, goVars>>
    \/ \E h \in Handlers :
          Subscribe(h) /\ last' = Done("Subscribe", h, SubscribeRet(h), <<>>) /\ UNCHANGED <<th, regVars, lock, fnVars, sesVars, goVars>>
    \/ \E h \in Handlers :
          /\ Unsubscribe(h)
          /\ last' = Done("Unsubscribe", h, unsubscribe(handlers, arrays, h).ret, <<>>)
          /\ UNCHANGED <<th, regVars, lock, fnVars, sesVars, goVars>>
    \/ \E x \in Events :
          HasHandler(x) /\ last' = Done("HasHandler", x, RetBool(HasHandlerRet(x)), <<>>) /\ UNCHANGED <<th, regVars, lock, fnVars, sesVars, goVars>>
    \/ \E e \in Events \cup {NIL} : Publish(e) /\ UNCHANGED <<th, regVars, lock, fnVars, sesVars, goVars>>
    \/ activate /\ UNCHANGED <<th, regVars, lock, fnVars, sesVars, goVars>>

Spec == Init /\ [][Next]_vars

(***************************************************************************)
(* Properties of the bus under one caller.                                 *)
(***************************************************************************)
\* The subscriptions for the type of an event, as the handler map holds them.
ListOf(hs, ars, event) == Elems(ars, Lookup(hs, QualifiedName(event)))

Subscribed(event) == ListOf(handlers, arrays, event)

\* A listener's handler fails when called: it panics or returns an error.
Fails(listener) == Call(listener).kind = "panic" \/ Call(listener).value = "error"

\* The calls one dispatch of the event owes: every subscription, in order.
Owed(event, slot) == [k \in 1..Len(Subscribed(event)) |-> <<Subscribed(event)[k].id, event, slot>>]

RECURSIVE OwedReplay(_)
OwedReplay(n) == IF n = 0 THEN <<>> ELSE OwedReplay(n - 1) \o Owed(queue[n], n)

\* C1: once activate has returned, every handler subscribed for the type of
\* a queued event has been called with it exactly once, the queued events in
\* the order of their publication.
C1_ReplayDeliversAllOnceInOrder ==
    last.op = "activate" => last.invoked = OwedReplay(Len(queue))

\* C2: a Publish on a started bus calls every subscription of its snapshot,
\* whether or not an earlier handler of the dispatch returned an error or
\* panicked.
C2_FailingHandlerStopsNoOther ==
    (last.op = "Publish" /\ last.arg # NIL /\ isStarted)
        => last.invoked = Owed(last.arg, 0)

\* C6: after activate has replayed the queue the queue is empty, and no later
\* activate calls a handler with an event that was replayed before.
C6_QueueClearedNeverReplayedAgain ==
    /\ [](last.op = "activate" => queue = <<>>)
    /\ [][last'.op = "activate" =>
            \A k \in 1..Len(last'.invoked) :
                ~(last'.invoked[k][3] \in 1..Len(replayed) /\ replayed[last'.invoked[k][3]])]_vars

\* C7: once started, the bus stays started under every operation.
C7_ActiveIsIrreversible == [][isStarted => isStarted']_vars

\* C8: while the bus is not started, Publish of a non-nil event calls no
\* handler, appends exactly that event at the end of the queue, leaves the
\* subscription lists as they are and returns nil.
C8_IdlePublishQueues ==
    [][(last'.op = "Publish" /\ last'.arg # NIL /\ ~isStarted) =>
            /\ last'.invoked = <<>>
            /\ queue' = Append(queue, last'.arg)
            /\ handlers' = handlers
            /\ arrays' = arrays
            /\ isStarted' = isStarted
            /\ last'.ret = RetNil]_vars

\* A Publish has queued an event for whose type a panicking handler and an
\* error-returning handler are subscribed.
C8_Witness ==
    /\ last.op = "Publish" /\ last.arg # NIL /\ ~isStarted
    /\ queue # <<>> /\ queue[Len(queue)] = last.arg
    /\ \E k \in 1..Len(Subscribed(last.arg)) : Subscribed(last.arg)[k].handler.does = "panic"
    /\ \E k \in 1..Len(Subscribed(last.arg)) : Subscribed(last.arg)[k].handler.does = "err"

\* The aggregate one dispatch of the event owes: the failing subscriptions
\* with the error each one raised.
OwedErrors(event) ==
    LET failing == {k \in 1..Len(Subscribed(event)) : Fails(Subscribed(event)[k])}
    IN IF failing = {} THEN <<>>
       ELSE (event :> [l \in {Subscribed(event)[k] : k \in failing} |-> Call(l).err])

\* C9: Publish on a started bus returns the aggregate of exactly the failing
\* (event, subscription) pairs of its dispatch, and nil if and only if no
\* handler of the snapshot failed.
C9_PublishReturnsExactAggregate ==
    (last.op = "Publish" /\ last.arg # NIL /\ isStarted)
        => IF OwedErrors(last.arg) = <<>>
           THEN last.ret = RetNil
           ELSE last.ret = RetPublishError(OwedErrors(last.arg))

\* C10: activate replays every queued event, also after a replay that
\* returned an aggregate, and returns one aggregate holding every (event,
\* handler) failure of every replay; it returns nil only if no replayed
\* handler failed.
C10_ActivateReplaysAllAndMerges ==
    last.op = "activate" =>
        /\ \A i \in 1..Len(queue) : replayed[i]
        /\ \A i \in 1..Len(queue) :
              \A k \in 1..Len(Subscribed(queue[i])) :
                  Fails(Subscribed(queue[i])[k]) =>
                      /\ last.ret.kind = "PublishError"
                      /\ queue[i] \in DOMAIN last.ret.failedListeners
                      /\ Subscribed(queue[i])[k] \in DOMAIN last.ret.failedListeners[queue[i]]
        /\ (last.ret = RetNil =>
              \A i \in 1..Len(queue) :
                  \A k \in 1..Len(Subscribed(queue[i])) : ~Fails(Subscribed(queue[i])[k]))

\* The subscription list of a routing key.
ListAt(hs, ars, key) == Elems(ars, Lookup(hs, key))

\* The list without its entry at place n.
Without(list, n) ==
    [i \in 1..(Len(list) - 1) |-> IF i < n THEN list[i] ELSE list[i + 1]]

\* The places of the list whose qualified handler name is the handler's.
Matches(list, handler) ==
    {i \in 1..Len(list) : list[i].qualifiedName = QualifiedName(handler)}

C14_DispatchInSubscriptionOrder ==
    (last.op = "Publish" /\ last.arg # NIL /\ isStarted) =>
        LET list == Subscribed(last.arg)
        IN /\ \A i, j \in 1..Len(list) : i < j => list[i].id < list[j].id
           /\ Len(last.invoked) <= Len(list)
           /\ \A k \in 1..Len(last.invoked) : last.invoked[k] = <<list[k].id, last.arg, 0>>
           /\ (\A k \in 1..Len(list) : Call(list[k]).kind # "panic")
                 => Len(last.invoked) = Len(list)

\* A Publish on a started bus has called two handlers.
C14_Witness ==
    /\ last.op = "Publish" /\ last.arg # NIL /\ isStarted
    /\ Len(last.invoked) >= 2

\* The bus called with handlers of every shape.
NextShapes ==
    \/ \E h \in Shapes :
          Subscribe(h) /\ last' = Done("Subscribe", h, SubscribeRet(h), <<>>) /\ UNCHANGED <<th, regVars, lock, fnVars, sesVars, goVars>>
    \/ \E h \in Shapes :
          /\ Unsubscribe(h)
          /\ last' = Done("Unsubscribe", h, unsubscribe(handlers, arrays, h).ret, <<>>)
          /\ UNCHANGED <<th, regVars, lock, fnVars, sesVars, goVars>>
    \/ \E x \in {Event(TypeA, 1), IntEvent} :
          HasHandler(x) /\ last' = Done("HasHandler", x, RetBool(HasHandlerRet(x)), <<>>) /\ UNCHANGED <<th, regVars, lock, fnVars, sesVars, goVars>>
    \/ Publish(Event(TypeA, 1)) /\ UNCHANGED <<th, regVars, lock, fnVars, sesVars, goVars>>
    \/ activate /\ UNCHANGED <<th, regVars, lock, fnVars, sesVars, goVars>>

SpecShapes == Init /\ [][NextShapes]_vars

\* The routing key that Subscribe and Unsubscribe derive from a handler.
KeyOf(h) == Str(h.in.pkg) \o <<"/">> \o Str(h.in.name)

\* The subscription lists of all routing keys are as they were.
SameLists ==
    /\ DOMAIN handlers' = DOMAIN handlers
    /\ \A k \in DOMAIN handlers : ListAt(handlers', arrays', k) = ListAt(handlers, arrays, k)

\* A function with exactly one parameter and no result or a single error.
WellShaped(h) ==
    /\ h.kind = "func"
    /\ h.numIn = 1
    /\ h.out \in {"none", "error"}

C19_UnsubscribeFailsWithoutChange ==
    [][(/\ last'.op = "Unsubscribe"
        /\ LET h == last'.arg
           IN \/ ~WellShaped(h)
              \/ ListAt(handlers, arrays, KeyOf(h)) = <<>>
              \/ Matches(ListAt(handlers, arrays, KeyOf(h)), h) = {})
       => /\ last'.ret.kind = "error"
          /\ SameLists]_vars

\* An Unsubscribe of a well-shaped handler has failed on a list that holds
\* only subscriptions of other handlers.
C19_Witness ==
    /\ last.op = "Unsubscribe"
    /\ last.ret = RetError(ErrHandlerNotFound)
    /\ WellShaped(last.arg)
    /\ ListAt(handlers, arrays, KeyOf(last.arg)) # <<>>
    /\ Matches(ListAt(handlers, arrays, KeyOf(last.arg)), last.arg) = {}

\* The subscriptions the bus holds, over all routing keys.
Subscriptions ==
    UNION {{ListAt(handlers, arrays, k)[i] : i \in 1..Len(ListAt(handlers, arrays, k))} :
           k \in DOMAIN handlers}

\* C20: HasHandler(x) returns true exactly when the bus holds at least one
\* subscription whose handler's parameter type is the type of x.
C20_HasHandlerIffSubscribed ==
    [][last'.op = "HasHandler" =>
          (last'.ret = RetBool(TRUE)
              <=> \E l \in Subscriptions : l.handler.in = last'.arg.type)]_vars

(***************************************************************************)
(* The bus under several goroutines.  Subscribe, Unsubscribe and HasHandler*)
(* run under the write lock and are one step each; Publish and activate    *)
(* take one step per access to the shared fields of the bus.               *)
(***************************************************************************)
Frame(top) ==
    [pc |-> "idle", top |-> top, event |-> NIL, slot |-> 0, hdr |-> NilSlice,
     copy |-> <<>>, i |-> 0, errPublish |-> newPublicError, invoked |-> <<>>,
     ret |-> RetNil, rq |-> <<>>, pubErr |-> newPublicError, lists |-> {},
     stable |-> TRUE]

\* The frame of a call that has returned keeps its result and its calls.
Returned(f, ret) ==
    [Frame(f.top) EXCEPT !.pc = "done", !.ret = ret, !.invoked = f.invoked,
                         !.stable = f.stable]

Free(t) == th[t].pc \in {"idle", "done"}

\* What a call does once the Publish it runs has its result: Publish returns
\* it; activate merges an aggregate and goes on, and returns any other error.
Finish(f, ret) ==
    IF f.top = "Publish"
    THEN Returned(f, ret)
    ELSE IF ret.kind = "nil"
         THEN [f EXCEPT !.pc = "next", !.slot = @ + 1]
         ELSE IF ret.kind = "PublishError"
              THEN [f EXCEPT !.pc = "next", !.slot = @ + 1,
                             !.pubErr = addPublishError(@, ret.failedListeners)]
              ELSE Returned(f, ret)

\* The head of Publish: the nil check and the read of isStarted.
Enter(f, event) ==
    LET g == [f EXCEPT !.event = event, !.hdr = NilSlice, !.copy = <<>>, !.i = 0,
                       !.errPublish = newPublicError,
                       !.lists = IF event = NIL THEN {} ELSE {Subscribed(event)}]
    IN IF event = NIL
       THEN Finish(g, RetError(ErrEventMustNotBeNil))
       ELSE IF ~isStarted
            THEN [g EXCEPT !.pc = "queue"]
            ELSE [g EXCEPT !.pc = "lookup"]

gPublish(t, event) ==
    /\ Free(t)
    /\ th' = [th EXCEPT ![t] = Enter(Frame("Publish"), event)]
    /\ UNCHANGED busVars

\* bus.queue = append(bus.queue, event)
gQueue(t) ==
    /\ th[t].pc = "queue"
    /\ Len(queue) < MaxQueue
    /\ queue' = Append(queue, th[t].event)
    /\ replayed' = Append(replayed, FALSE)
    /\ th' = [th EXCEPT ![t] = Finish(@, RetNil)]
    /\ UNCHANGED <<isStarted, handlers, arrays, nextId, last>>

\* handlers, ok := bus.handlers[eventType], read without the lock
gLookup(t) ==
    /\ th[t].pc = "lookup"
    /\ LET eventType == QualifiedName(th[t].event)
           hdr == Lookup(handlers, eventType)
       IN th' = [th EXCEPT ![t] =
                    IF eventType \in DOMAIN handlers /\ 0 < hdr.len
                    THEN [@ EXCEPT !.pc = "copy", !.hdr = hdr]
                    ELSE Finish(@, RetNil)]
    /\ UNCHANGED busVars

\* RLock; copy(copyHandlers, handlers); RUnlock: the elements the header read
\* earlier shows of its backing array now.  stable notes whether they are
\* one of the lists the routing key held since the call began.
gCopy(t) ==
    /\ th[t].pc = "copy"
    /\ th' = [th EXCEPT ![t] =
                [@ EXCEPT !.pc = "call", !.i = 1, !.hdr = NilSlice, !.lists = {},
                          !.copy = Elems(arrays, th[t].hdr),
                          !.stable = @ /\ Elems(arrays, th[t].hdr) \in th[t].lists]]
    /\ arrays' = Collect(arrays, Headers(handlers) \cup {th'[u].hdr : u \in {v \in Threads : th'[v].pc = "copy"}})
    /\ UNCHANGED <<isStarted, queue, handlers, nextId, replayed, last>>

\* One turn of the loop of publish: the call of one listener's handler.
gCall(t) ==
    /\ th[t].pc = "call"
    /\ LET f == th[t]
           l == f.copy[f.i]
           r == Call(l)
           inv == Append(f.invoked, <<l.id, f.event, IF f.top = "activate" THEN f.slot ELSE 0>>)
           errs == IF r.kind = "return" /\ r.value = "error"
                   THEN addError(f.errPublish, f.event, l, r.err)
                   ELSE f.errPublish
       IN th' = [th EXCEPT ![t] =
                    IF r.kind = "panic"
                    THEN Finish([f EXCEPT !.invoked = inv], Recovered(r.value, r.err))
                    ELSE IF f.i < Len(f.copy)
                         THEN [f EXCEPT !.invoked = inv, !.errPublish = errs, !.i = @ + 1]
                         ELSE Finish([f EXCEPT !.invoked = inv, !.errPublish = errs],
                                     IF hasErrors(errs) THEN RetPublishError(errs) ELSE RetNil)]
    /\ UNCHANGED busVars

\* bus.isStarted = true
gActivate(t) ==
    /\ Free(t)
    /\ isStarted' = TRUE
    /\ th' = [th EXCEPT ![t] = [Frame("activate") EXCEPT !.pc = "range"]]
    /\ UNCHANGED <<queue, handlers, arrays, nextId, replayed, last>>

\* for _, event := range bus.queue: the slice is read once
gRange(t) ==
    /\ th[t].pc = "range"
    /\ th' = [th EXCEPT ![t] = [@ EXCEPT !.pc = "next", !.rq = queue, !.slot = 1]]
    /\ UNCHANGED busVars

\* The next turn of the replay loop, or the return of activate.
gNext(t) ==
    /\ th[t].pc = "next"
    /\ LET f == th[t]
       IN IF f.slot > Len(f.rq)
          THEN /\ th' = [th EXCEPT ![t] =
                            Returned(f, IF hasErrors(f.pubErr)
                                        THEN RetPublishError(f.pubErr) ELSE RetNil)]
               /\ UNCHANGED replayed
          ELSE /\ th' = [th EXCEPT ![t] = Enter(f, f.rq[f.slot])]
               /\ replayed' = [k \in 1..Len(replayed) |-> replayed[k] \/ k = f.slot]
    /\ UNCHANGED <<isStarted, queue, handlers, arrays, nextId, last>>

\* Every running Publish notes the list its routing key holds now.
Note(frames) ==
    [t \in Threads |->
        IF frames[t].pc \in {"queue", "lookup", "copy"}
        THEN [frames[t] EXCEPT !.lists = @ \cup {ListOf(handlers', arrays', frames[t].event)}]
        ELSE frames[t]]

gSubscribe(handler) == Subscribe(handler) /\ th' = Note(th) /\ UNCHANGED last

gUnsubscribe(handler) == Unsubscribe(handler) /\ th' = Note(th) /\ UNCHANGED last

ConcInit == BusInit /\ th = [t \in Threads |-> Frame("none")] /\ NoRegistry /\ NoCall

ConcHandlers == {hErr, hPanic}

ConcEvents == {Event(TypeA, 1), NIL}

NextConc ==
    \/ \E h \in ConcHandlers : gSubscribe(h) /\ UNCHANGED <<regVars, lock, fnVars, sesVars, goVars>>
    \/ \E h \in ConcHandlers : gUnsubscribe(h) /\ UNCHANGED <<regVars, lock, fnVars, sesVars, goVars>>
    \/ \E t \in Threads : \E e \in ConcEvents : gPublish(t, e) /\ UNCHANGED <<regVars, lock, fnVars, sesVars, goVars>>
    \/ \E t \in Threads : gQueue(t) /\ UNCHANGED <<regVars, lock, fnVars, sesVars, goVars>>
    \/ \E t \in Threads : gLookup(t) /\ UNCHANGED <<regVars, lock, fnVars, sesVars, goVars>>
    \/ \E t \in Threads : gCopy(t) /\ UNCHANGED <<regVars, lock, fnVars, sesVars, goVars>>
    \/ \E t \in Threads : gCall(t) /\ UNCHANGED <<regVars, lock, fnVars, sesVars, goVars>>
    \/ gActivate(Main) /\ UNCHANGED <<regVars, lock, fnVars, sesVars, goVars>>
    \/ gRange(Main) /\ UNCHANGED <<regVars, lock, fnVars, sesVars, goVars>>
    \/ gNext(Main) /\ UNCHANGED <<regVars, lock, fnVars, sesVars, goVars>>

SpecConc == ConcInit /\ [][NextConc]_vars

\* C3: under every interleaving of Publish with Subscribe and Unsubscribe on
\* its routing key, the listeners one Publish dispatches to are the
\* subscription list as it stood at one instant during that call.
C3_DispatchSeesOneInstant ==
    \A t \in Threads : th[t].stable

\* C33: under every interleaving of Publish calls with activate, no event
\* whose Publish returned without an error is lost: once activate has
\* returned without an error, every event of the queue that a handler is
\* subscribed for has been handed to Publish by the replay loop.
C33_NoQueuedEventLeftBehind ==
    (th[Main].top = "activate" /\ th[Main].pc = "done" /\ th[Main].ret = RetNil) =>
        \A k \in 1..Len(queue) :
            \/ replayed[k]
            \/ ~\E l \in Subscriptions : l.handler.in = queue[k].type

(***************************************************************************)
(* Concurrent Publish calls on a bus that is started and whose             *)
(* subscriptions are complete before the first Publish: activate, then     *)
(* Subscribe, then one Publish per goroutine.                              *)
(***************************************************************************)
MultiHandlers == {hOk, hErr, hPanic}

MultiEvent == Event(TypeA, 1)

\* No goroutine has called Publish yet.
NoPublishYet == \A t \in Threads : th[t].top # "Publish"

mSubscribe(handler) == isStarted /\ Free(Main) /\ NoPublishYet /\ gSubscribe(handler)

\* go func() { bus.Publish(testEvent{}) }(): one call per goroutine.
mPublish(t) ==
    /\ isStarted /\ Free(Main)
    /\ th[t].top # "Publish"
    /\ gPublish(t, MultiEvent)

NextMulti ==
    \/ ~isStarted /\ gActivate(Main) /\ UNCHANGED <<regVars, lock, fnVars, sesVars, goVars>>
    \/ gRange(Main) /\ UNCHANGED <<regVars, lock, fnVars, sesVars, goVars>>
    \/ gNext(Main) /\ UNCHANGED <<regVars, lock, fnVars, sesVars, goVars>>
    \/ \E h \in MultiHandlers : mSubscribe(h) /\ UNCHANGED <<regVars, lock, fnVars, sesVars, goVars>>
    \/ \E t \in Threads : mPublish(t) /\ UNCHANGED <<regVars, lock, fnVars, sesVars, goVars>>
    \/ \E t \in Threads : gLookup(t) /\ UNCHANGED <<regVars, lock, fnVars, sesVars, goVars>>
    \/ \E t \in Threads : gCopy(t) /\ UNCHANGED <<regVars, lock, fnVars, sesVars, goVars>>
    \/ \E t \in Threads : gCall(t) /\ UNCHANGED <<regVars, lock, fnVars, sesVars, goVars>>

SpecMulti == ConcInit /\ [][NextMulti]_vars

\* All the Publish calls have returned.
AllPublished == \A t \in Threads : th[t].top = "Publish" /\ th[t].pc = "done"

\* The number of calls of the listener in the Publish of goroutine t.
CallsIn(t, listener) ==
    Cardinality({k \in 1..Len(th[t].invoked) : th[t].invoked[k][1] = listener.id})

RECURSIVE CallsOf(_, _)
CallsOf(ts, listener) ==
    IF ts = {} THEN 0
    ELSE LET t == CHOOSE t \in ts : TRUE
         IN CallsIn(t, listener) + CallsOf(ts \ {t}, listener)

\* C11: with M handlers subscribed on a started bus and one Publish from each
\* of the N goroutines, once all Publish calls have returned every handler has
\* been called exactly N times.
C11_EachHandlerCalledNTimes ==
    AllPublished =>
        \A k \in 1..Len(Subscribed(MultiEvent)) :
            CallsOf(Threads, Subscribed(MultiEvent)[k]) = Cardinality(Threads)

(***************************************************************************)
(* The bus lock.  Here every goroutine has a stack of running bus calls:   *)
(* a handler may call the bus while Publish dispatches to it.  Lock,       *)
(* RLock and their release are steps of their own.                         *)
(***************************************************************************)
MaxNest == 3

\* Handlers that call the bus they are subscribed to.
hSubscribes == Func("hSubscribes", TypeA, 1, "none", "Subscribe")
hUnsubscribes == Func("hUnsubscribes", TypeA, 1, "none", "Unsubscribe")
hHasHandler == Func("hHasHandler", TypeA, 1, "none", "HasHandler")
hPublishes == Func("hPublishes", TypeA, 1, "error", "Publish")

LockHandlers == {hSubscribes, hUnsubscribes, hHasHandler, hPublishes}

\* The argument of the call a handler makes.
ArgOf(handler) ==
    CASE handler.does = "Subscribe" -> hB
      [] handler.does = "Unsubscribe" -> handler
      [] handler.does = "HasHandler" -> Event(TypeA, 1)
      [] OTHER -> Event(TypeB, 1)

\* The frame of a call, at the first access to the bus it makes.
Begin(op, arg) ==
    [op |-> op, arg |-> arg, hdr |-> NilSlice, copy |-> <<>>, i |-> 0, rq |-> <<>>,
     pc |-> CASE op \in {"Subscribe", "Unsubscribe"} ->
                   IF newBusListenerErr(arg) # "" THEN "return" ELSE "Lock"
              [] op = "HasHandler" -> "Lock"
              [] op = "activate" -> "start"
              [] OTHER -> IF arg = NIL THEN "return" ELSE "isStarted"]

Top(t) == th[t][Len(th[t])]

At(t, pc) == th[t] # <<>> /\ Top(t).pc = pc

SetTop(t, f) == [th EXCEPT ![t] = [@ EXCEPT ![Len(@)] = f]]

\* The return of the innermost call of a stack: a handler goes on with the
\* next listener, activate with the next queued event; a Publish that
\* returns a plain error ends activate.
RECURSIVE Return(_, _)
Return(stk, plainError) ==
    LET n == Len(stk)
        rest == SubSeq(stk, 1, n - 1)
    IN IF n <= 1 THEN <<>>
       ELSE LET p == rest[n - 1]
            IN IF p.op = "activate"
               THEN IF plainError THEN Return(rest, FALSE)
                    ELSE [rest EXCEPT ![n - 1] = [p EXCEPT !.i = @ + 1]]
               ELSE [rest EXCEPT ![n - 1] = [p EXCEPT !.i = @ + 1, !.pc = "call"]]

\* The slice headers the running Publish calls hold for their copy.
LockHeld ==
    UNION {{th[t][k].hdr : k \in 1..Len(th[t])} : t \in Threads} \ {NilSlice}

\* A goroutine calls the bus.
lEnter(t, op, arg) ==
    /\ th[t] = <<>>
    /\ th' = [th EXCEPT ![t] = <<Begin(op, arg)>>]
    /\ UNCHANGED <<busVars, lock>>

\* A call that touches nothing (any more) returns.
lReturn(t) ==
    /\ At(t, "return")
    /\ th' = [th EXCEPT ![t] = Return(@, FALSE)]
    /\ UNCHANGED <<busVars, lock>>

\* bus.lock.Lock() is called: the writer is announced, later readers wait.
lLock(t) ==
    /\ At(t, "Lock")
    /\ lock' = [lock EXCEPT !.pending = @ \cup {t}]
    /\ th' = SetTop(t, [Top(t) EXCEPT !.pc = "waiting"])
    /\ UNCHANGED busVars

\* bus.lock.Lock() returns: no writer and no reader holds the lock.
lLocked(t) ==
    /\ At(t, "waiting")
    /\ lock.w = "none" /\ \A u \in Threads : lock.r[u] = 0
    /\ lock' = [lock EXCEPT !.w = t, !.pending = @ \ {t}]
    /\ th' = SetTop(t, [Top(t) EXCEPT !.pc = "locked"])
    /\ UNCHANGED busVars

\* The body of Subscribe, HasHandler or Unsubscribe under the lock, and the
\* deferred Unlock.
lUnlock(t) ==
    /\ At(t, "locked")
    /\ LET f == Top(t)
       IN CASE f.op = "Subscribe" ->
                 LET eventHandler == newBusListener(f.arg, nextId + 1)
                     a == GoAppend(arrays, Lookup(handlers, eventHandler.eventTypeName), eventHandler)
                 IN /\ nextId < MaxSubscribe
                    /\ nextId' = nextId + 1
                    /\ handlers' = SetKey(handlers, eventHandler.eventTypeName, a.hdr)
                    /\ arrays' = Collect(a.arrays, Headers(handlers') \cup LockHeld)
            [] f.op = "Unsubscribe" ->
                 /\ handlers' = unsubscribe(handlers, arrays, f.arg).handlers
                 /\ arrays' = unsubscribe(handlers, arrays, f.arg).arrays
                 /\ UNCHANGED nextId
            [] OTHER -> UNCHANGED <<handlers, arrays, nextId>>
    /\ lock' = [lock EXCEPT !.w = "none"]
    /\ th' = [th EXCEPT ![t] = Return(@, FALSE)]
    /\ UNCHANGED <<isStarted, queue, replayed, last>>

\* The Subscribe calls that have begun and not yet appended.
RECURSIVE Subscribing(_)
Subscribing(ts) ==
    IF ts = {} THEN 0
    ELSE LET t == CHOOSE t \in ts : TRUE
         IN Cardinality({k \in 1..Len(th[t]) : th[t][k].op = "Subscribe" /\ th[t][k].pc # "return"})
              + Subscribing(ts \ {t})

\* The bound on the subscriptions leaves room for this call.
Room(op) == op = "Subscribe" => nextId + Subscribing(Threads) < MaxSubscribe

\* activate: bus.isStarted = true, and the range over bus.queue begins.
lActivate(t) ==
    /\ At(t, "start")
    /\ isStarted' = TRUE
    /\ th' = SetTop(t, [Top(t) EXCEPT !.pc = "next", !.rq = queue, !.i = 1])
    /\ UNCHANGED <<queue, handlers, arrays, nextId, replayed, last, lock>>

\* activate: bus.Publish(event) for the next queued event, or the return.
lNext(t) ==
    /\ At(t, "next")
    /\ LET f == Top(t)
       IN IF f.i > Len(f.rq)
          THEN /\ th' = [th EXCEPT ![t] = Return(@, FALSE)]
               /\ UNCHANGED replayed
          ELSE /\ th' = [th EXCEPT ![t] = Append(@, Begin("Publish", f.rq[f.i]))]
               /\ replayed' = [k \in 1..Len(replayed) |-> replayed[k] \/ k = f.i]
    /\ UNCHANGED <<isStarted, queue, handlers, arrays, nextId, last, lock>>

\* Publish: on a bus that is not started the event is queued.
lIsStarted(t) ==
    /\ At(t, "isStarted")
    /\ IF ~isStarted
       THEN /\ Len(queue) < MaxQueue
            /\ queue' = Append(queue, Top(t).arg)
            /\ replayed' = Append(replayed, FALSE)
            /\ th' = [th EXCEPT ![t] = Return(@, FALSE)]
       ELSE /\ th' = SetTop(t, [Top(t) EXCEPT !.pc = "lookup"])
            /\ UNCHANGED <<queue, replayed>>
    /\ UNCHANGED <<isStarted, handlers, arrays, nextId, last, lock>>

\* Publish: handlers, ok := bus.handlers[eventType], read without the lock.
lLookup(t) ==
    /\ At(t, "lookup")
    /\ LET eventType == QualifiedName(Top(t).arg)
           hdr == Lookup(handlers, eventType)
       IN th' = IF eventType \in DOMAIN handlers /\ 0 < hdr.len
                THEN SetTop(t, [Top(t) EXCEPT !.pc = "RLock", !.hdr = hdr])
                ELSE [th EXCEPT ![t] = Return(@, FALSE)]
    /\ UNCHANGED <<busVars, lock>>

\* bus.lock.RLock() returns: no writer holds the lock or waits for it.
lRLock(t) ==
    /\ At(t, "RLock")
    /\ lock.w = "none" /\ lock.pending = {}
    /\ lock' = [lock EXCEPT !.r[t] = @ + 1]
    /\ th' = SetTop(t, [Top(t) EXCEPT !.pc = "RLocked"])
    /\ UNCHANGED busVars

\* Publish under the read lock that is never released before the handlers
\* run.
lRUnlockDeferred(t) ==
    /\ At(t, "RLocked")
    /\ th' = SetTop(t, [Top(t) EXCEPT !.pc = "call", !.i = 1, !.hdr = NilSlice,
                                       !.copy = Elems(arrays, Top(t).hdr)])
    /\ UNCHANGED <<busVars, lock>>

\* Publish: the copy of the handlers under the read lock, and RUnlock.
lRUnlock(t) ==
    /\ At(t, "RLocked")
    /\ lock' = [lock EXCEPT !.r[t] = @ - 1]
    /\ th' = SetTop(t, [Top(t) EXCEPT !.pc = "call", !.i = 1, !.hdr = NilSlice,
                                       !.copy = Elems(arrays, Top(t).hdr)])
    /\ arrays' = Collect(arrays, Headers(handlers) \cup (LockHeld \ {Top(t).hdr}))
    /\ UNCHANGED <<isStarted, queue, handlers, nextId, replayed, last>>

\* publish: the call of the next listener's handler, which may call the bus
\* itself; a panic ends the Publish with a plain error.
lCall(t) ==
    /\ At(t, "call")
    /\ LET f == Top(t)
       IN IF f.i > Len(f.copy)
          THEN th' = [th EXCEPT ![t] = Return(@, FALSE)]
          ELSE LET l == f.copy[f.i]
               IN IF Call(l).kind = "panic"
                  THEN th' = [th EXCEPT ![t] = Return(@, TRUE)]
                  ELSE IF l.handler.does \in {"Subscribe", "Unsubscribe", "HasHandler", "Publish"}
                       THEN /\ Len(th[t]) < MaxNest
                            /\ Room(l.handler.does)
                            /\ th' = [th EXCEPT ![t] =
                                        Append([@ EXCEPT ![Len(@)] = [f EXCEPT !.pc = "handler"]],
                                               Begin(l.handler.does, ArgOf(l.handler)))]
                       ELSE th' = SetTop(t, [f EXCEPT !.i = @ + 1])
    /\ UNCHANGED <<busVars, lock>>

LockInit == BusInit /\ th = [t \in Threads |-> <<>>] /\ NoRegistry /\ NoCall

LockEvents == {Event(TypeA, 1), NIL}

NextLock ==
    \/ \E h \in LockHandlers \cup {NIL} :
          Room("Subscribe") /\ lEnter(Main, "Subscribe", h) /\ UNCHANGED <<regVars, fnVars, sesVars, goVars>>
    \/ \E t \in Threads : \E e \in LockEvents :
          lEnter(t, "Publish", e) /\ UNCHANGED <<regVars, fnVars, sesVars, goVars>>
    \/ ~isStarted /\ lEnter(Main, "activate", NIL) /\ UNCHANGED <<regVars, fnVars, sesVars, goVars>>
    \/ \E t \in Threads : lReturn(t) /\ UNCHANGED <<regVars, fnVars, sesVars, goVars>>
    \/ \E t \in Threads : lLock(t) /\ UNCHANGED <<regVars, fnVars, sesVars, goVars>>
    \/ \E t \in Threads : lLocked(t) /\ UNCHANGED <<regVars, fnVars, sesVars, goVars>>
    \/ \E t \in Threads : lUnlock(t) /\ UNCHANGED <<regVars, fnVars, sesVars, goVars>>
    \/ lActivate(Main) /\ UNCHANGED <<regVars, fnVars, sesVars, goVars>>
    \/ lNext(Main) /\ UNCHANGED <<regVars, fnVars, sesVars, goVars>>
    \/ \E t \in Threads : lIsStarted(t) /\ UNCHANGED <<regVars, fnVars, sesVars, goVars>>
    \/ \E t \in Threads : lLookup(t) /\ UNCHANGED <<regVars, fnVars, sesVars, goVars>>
    \/ \E t \in Threads : lRLock(t) /\ UNCHANGED <<regVars, fnVars, sesVars, goVars>>
    \/ \E t \in Threads : lRUnlock(t) /\ UNCHANGED <<regVars, fnVars, sesVars, goVars>>
    \/ \E t \in Threads : lCall(t) /\ UNCHANGED <<regVars, fnVars, sesVars, goVars>>

SpecLock == LockInit /\ [][NextLock]_vars

\* A goroutine waits in Lock() or RLock().
WaitsForLock(t) == At(t, "waiting") \/ At(t, "RLock")

\* Some goroutine can take the lock or release it.
LockMoves ==
    \E u \in Threads :
        \/ ENABLED lLocked(u)
        \/ ENABLED lUnlock(u)
        \/ ENABLED lRLock(u)
        \/ ENABLED lRUnlock(u)

\* C12: no goroutine holds the bus lock while a handler runs, whatever the
\* handler calls on the bus: the write lock is held only over the body of
\* Subscribe, HasHandler and Unsubscribe, the read lock only over the copy
\* in Publish; and whenever a goroutine waits for the lock some goroutine can
\* take or release it, so no reachable state is a deadlock of the lock.
C12_NoLockHeldInHandler ==
    /\ \A t \in Threads :
          /\ lock.w = t => At(t, "locked")
          /\ lock.r[t] > 0 => At(t, "RLocked")
    /\ (\E t \in Threads : WaitsForLock(t)) => LockMoves

\* A handler running in the Publish of one goroutine has called the bus and
\* waits for the lock another goroutine holds.
C12_Witness ==
    \E t, u \in Threads :
        /\ t # u
        /\ Len(th[t]) >= 2 /\ th[t][Len(th[t]) - 1].pc = "handler"
        /\ WaitsForLock(t)
        /\ lock.w = u \/ lock.r[u] > 0

(***************************************************************************)
(* The dependency resolver.  The registry holds one entry per component    *)
(* type, A and B under the default name and C under the name "other".  A   *)
(* "wire" field is given by its type and the name option of its tag.  The  *)
(* type is a pointer to a component type, the interface "I" that A and B   *)
(* implement, or "X", a type no entry has.                                 *)
(***************************************************************************)
Comps == {"A", "B", "C"}

FieldTypes == Comps \cup {"I", "X"}

DefaultName == "default"

\* The name each entry is registered under.
RegName == [c \in Comps |-> IF c = "C" THEN "other" ELSE DefaultName]

\* A field tagged boot:"wire" (name "") or boot:"wire,name:<name>".
Field(type, name) == [type |-> type, name |-> name]

\* resolveDependency: the name option of the tag, or the default name.
regEntryName(field) == IF field.name = "" THEN DefaultName ELSE field.name

\* controlValue.Type().AssignableTo(field.Type)
AssignableTo(c, fieldType) == fieldType = c \/ (fieldType = "I" /\ c \in {"A", "B"})

\* processWiring taking the entries of every name.
matchingValuesOfAnyName(field) == {c \in Comps : AssignableTo(c, field.type)}

\* processWiring: the entries under the name whose type the field accepts.
matchingValues(field) ==
    {c \in Comps : RegName[c] = regEntryName(field) /\ AssignableTo(c, field.type)}

NoError == <<>>

\* initComponent with no deferred recover: a panic of Init leaves it as a
\* panic.
initComponentWithoutRecover(e, does) ==
    CASE does = "ok" -> [fault |-> FALSE, err |-> NoError]
      [] does = "err" -> [fault |-> FALSE, err |-> <<"failed to initialize component", e, "- reason">>]
      [] OTHER -> [fault |-> TRUE, err |-> NoError]

\* initComponent: the error Init's failure is turned into, or none.  The
\* deferred recover turns a panic with an error, with a string or with any
\* other value into an error; fault tells whether a panic leaves the call.
initComponent(e, does) ==
    CASE does = "ok" -> [fault |-> FALSE, err |-> NoError]
      [] does = "err" -> [fault |-> FALSE, err |-> <<"failed to initialize component", e, "- reason">>]
      [] does = "panicError" -> [fault |-> FALSE, err |-> <<"initializing", e, "panicked with error">>]
      [] does = "panicString" -> [fault |-> FALSE, err |-> <<"initializing", e, "panicked with message">>]
      [] OTHER -> [fault |-> FALSE, err |-> <<"initializing", e, "panicked">>]

NewCall(e) == [entry |-> e, j |-> 1, entries |-> <<>>]

\* resolveDependency that resolves an entry whatever its state is.
rCallInAnyState(e) ==
    /\ stack = <<>>
    /\ stack' = <<NewCall(e)>>
    /\ UNCHANGED <<fields, initDoes, state, wired, initOrder, resolved, res>>

\* The caller (the orchestrator, a test) calls resolveDependency on an entry.
\* An entry that is not Created returns at once.
rCall(e) ==
    /\ stack = <<>>
    /\ IF state[e] # "Created"
       THEN /\ res' = [entry |-> e, entries |-> <<>>, err |-> NoError, fault |-> FALSE]
            /\ UNCHANGED stack
       ELSE /\ stack' = <<NewCall(e)>>
            /\ UNCHANGED res
    /\ UNCHANGED <<fields, initDoes, state, wired, initOrder, resolved>>

\* An error leaves every running call: processWiring and resolveDependency
\* hand it up with a nil list.
Unwind(err, entries) ==
    /\ stack' = <<>>
    /\ res' = [entry |-> stack[1].entry, entries |-> entries, err |-> err, fault |-> FALSE]

\* One "wire" field of the innermost call: processWiring.
rField ==
    /\ stack # <<>>
    /\ LET n == Len(stack)
           f == stack[n]
       IN /\ f.j <= Len(fields[f.entry])
          /\ LET m == matchingValues(fields[f.entry][f.j])
             IN CASE Cardinality(m) = 1 ->
                       LET e == CHOOSE c \in m : TRUE
                       IN IF state[e] = "Created"
                          THEN /\ n < MaxDepth
                               /\ stack' = Append(stack, NewCall(e))
                               /\ UNCHANGED <<wired, res>>
                          ELSE /\ wired' = [wired EXCEPT ![f.entry][f.j] = e]
                               /\ stack' = [stack EXCEPT ![n].j = @ + 1]
                               /\ UNCHANGED res
                  [] Cardinality(m) = 0 ->
                       /\ Unwind(<<"dependency value not found for", f.entry>>, <<>>)
                       /\ UNCHANGED wired
                  [] OTHER ->
                       /\ Unwind(<<"multiple dependency values found for", f.entry>>, <<>>)
                       /\ UNCHANGED wired
    /\ UNCHANGED <<fields, initDoes, state, initOrder, resolved>>

\* The end of the innermost call: initComponent, the new state, the return.
\* A successful call hands its list to the field of the call that made it.
rInit ==
    /\ stack # <<>>
    /\ LET n == Len(stack)
           f == stack[n]
           r == initComponent(f.entry, initDoes[f.entry])
           err == r.err
           out == Append(f.entries, f.entry)
       IN /\ f.j > Len(fields[f.entry])
          /\ initOrder' = Append(initOrder, f.entry)
          /\ IF r.fault
             THEN /\ stack' = <<>>
                  /\ res' = [entry |-> stack[1].entry, entries |-> <<>>, err |-> NoError, fault |-> TRUE]
                  /\ UNCHANGED <<state, wired, resolved>>
             ELSE IF err # NoError
             THEN /\ state' = [state EXCEPT ![f.entry] = "Failed"]
                  /\ Unwind(err, IF n = 1 THEN f.entries ELSE <<>>)
                  /\ UNCHANGED <<wired, resolved>>
             ELSE /\ state' = [state EXCEPT ![f.entry] = "Initialized"]
                  /\ IF n = 1
                     THEN /\ stack' = <<>>
                          /\ res' = [entry |-> f.entry, entries |-> out, err |-> NoError, fault |-> FALSE]
                          /\ resolved' = resolved \o out
                          /\ UNCHANGED wired
                     ELSE LET p == stack[n - 1]
                          IN /\ wired' = [wired EXCEPT ![p.entry][p.j] = f.entry]
                             /\ stack' = [k \in 1..(n - 1) |->
                                            IF k = n - 1
                                            THEN [p EXCEPT !.j = @ + 1, !.entries = @ \o out]
                                            ELSE stack[k]]
                             /\ UNCHANGED <<res, resolved>>
    /\ UNCHANGED <<fields, initDoes>>

\* The registries of the model: up to MaxFields "wire" fields per component,
\* and at most one component whose Init fails.
FieldLists ==
    {<<>>}
      \cup {<<Field(t, "")>> : t \in FieldTypes}
      \cup {<<Field("C", "other")>>, <<Field("I", "other")>>}
      \cup {<<Field("B", ""), Field("C", "other")>>,
            <<Field("C", "other"), Field("A", "")>>,
            <<Field("B", ""), Field("X", "")>>}

InitChoices ==
    {d \in [Comps -> {"ok", "err", "panicError", "panicString", "panicOther"}] :
        Cardinality({c \in Comps : d[c] # "ok"}) <= 1}

ResolveInit ==
    /\ BusInit /\ NoThreads /\ NoCall
    /\ fields \in [Comps -> FieldLists]
    /\ \A c \in Comps : Len(fields[c]) <= MaxFields
    /\ initDoes \in InitChoices
    /\ state = [c \in Comps |-> "Created"]
    /\ wired = [c \in Comps |-> [j \in 1..Len(fields[c]) |-> "none"]]
    /\ stack = <<>>
    /\ initOrder = <<>>
    /\ resolved = <<>>
    /\ res = [entry |-> "none", entries |-> <<>>, err |-> NoError, fault |-> FALSE]

NextResolve ==
    \/ \E e \in Comps : rCall(e) /\ UNCHANGED <<busVars, th, lock, fnVars, sesVars, goVars>>
    \/ rField /\ UNCHANGED <<busVars, th, lock, fnVars, sesVars, goVars>>
    \/ rInit /\ UNCHANGED <<busVars, th, lock, fnVars, sesVars, goVars>>

SpecResolve == ResolveInit /\ [][NextResolve]_vars

\* The "wire" graph: a has a field that exactly one entry, b, matches.
Wires(a, b) == \E j \in 1..Len(fields[a]) : matchingValues(fields[a][j]) = {b}

RECURSIVE ReachFrom(_, _)
ReachFrom(S, n) ==
    IF n = 0 THEN S
    ELSE ReachFrom(S \cup {b \in Comps : \E a \in S : Wires(a, b)}, n - 1)

Acyclic == \A a \in Comps : a \notin ReachFrom({b \in Comps : Wires(a, b)}, Cardinality(Comps))

\* C4: resolveDependency terminates for every registry, cyclic "wire" fields
\* included: the check of the entry state stops the recursion, so no entry
\* is entered again while a call on it is running and the depth of the
\* recursion stays within the number of entries.
C4_RecursionStops ==
    /\ Len(stack) <= Cardinality(Comps)
    /\ \A i, k \in 1..Len(stack) : i # k => stack[i].entry # stack[k].entry

Before(seq, x, y) ==
    \E i, k \in 1..Len(seq) : i < k /\ seq[i] = x /\ seq[k] = y

\* C5: with acyclic "wire" fields, a component set into a field of A was
\* initialized successfully before A's Init was called, and stands before A
\* in the list of resolved entries.
C5_DependencyInitializedFirst ==
    Acyclic =>
        \A a \in Comps :
            \A j \in 1..Len(wired[a]) :
                (wired[a][j] # "none") =>
                    /\ (\E k \in 1..Len(initOrder) : initOrder[k] = a) =>
                          /\ state[wired[a][j]] = "Initialized"
                          /\ Before(initOrder, wired[a][j], a)
                    /\ (\E k \in 1..Len(resolved) : resolved[k] = a) =>
                          Before(resolved, wired[a][j], a)

\* The component's Init has been called.
InitCalled(a) == \E k \in 1..Len(initOrder) : initOrder[k] = a

\* C15: when the Init of a dependency d has failed, in this resolve call or
\* in an earlier one, resolving a component that wires d returns an error,
\* the component's Init is not called and it is not marked Initialized.
C15_FailedDependencyFailsDependent ==
    \A a, d \in Comps :
        (a # d /\ Wires(a, d) /\ state[d] = "Failed") =>
            /\ ~InitCalled(a)
            /\ state[a] # "Initialized"
            /\ (stack = <<>> /\ res.entry = a) => res.err # NoError

\* The text names the component.
Names(err, e) == \E k \in 1..Len(err) : err[k] = e

Candidates(field) ==
    {c \in Comps :
        /\ RegName[c] = (IF field.name = "" THEN DefaultName ELSE field.name)
        /\ AssignableTo(c, field.type)}

\* The field at which the innermost running call stands.
Current == fields[stack[Len(stack)].entry][stack[Len(stack)].j]

MaxArgs == 3

HasPrefix(str, prefix) ==
    Len(str) >= Len(prefix) /\ SubSeq(str, 1, Len(prefix)) = prefix

\* os.LookupEnv: the variable's value and whether it is set.
LookupEnv(env, name) ==
    IF name \in DOMAIN env THEN [value |-> env[name], ok |-> TRUE]
    ELSE [value |-> <<>>, ok |-> FALSE]

\* The loop of getConfig over os.Args from place i on, key being the local
\* variable of the loop; the environment is asked when the loop ends.
RECURSIVE getConfigFrom(_, _, _, _, _)
getConfigFrom(cfgKey, args, env, i, key) ==
    IF i > Len(args)
    THEN LookupEnv(env, cfgKey)
    ELSE LET arg == args[i]
         IN IF HasPrefix(arg, <<"-", "-">>) /\ Len(arg) > 2
            THEN getConfigFrom(cfgKey, args, env, i + 1, SubSeq(arg, 3, Len(arg)))
            ELSE IF key # <<>>
                 THEN IF cfgKey = key
                      THEN [value |-> arg, ok |-> TRUE]
                      ELSE getConfigFrom(cfgKey, args, env, i + 1, key)
                 ELSE getConfigFrom(cfgKey, args, env, i + 1, <<>>)

\* getConfig asking the environment before the command line.
getConfigEnvFirst(cfgKey, args, env) ==
    IF LookupEnv(env, cfgKey).ok
    THEN LookupEnv(env, cfgKey)
    ELSE getConfigFrom(cfgKey, args, [n \in {} |-> <<>>], 1, <<>>)

getConfig(cfgKey, args, env) == getConfigFrom(cfgKey, args, env, 1, <<>>)

Digits == {"0", "1", "2", "3", "4", "5", "6", "7", "8", "9"}

DigitValue(c) == CHOOSE n \in 0..9 : <<"0", "1", "2", "3", "4", "5", "6", "7", "8", "9">>[n + 1] = c

RECURSIVE DecimalValue(_)
DecimalValue(str) ==
    IF str = <<>> THEN 0
    ELSE 10 * DecimalValue(SubSeq(str, 1, Len(str) - 1)) + DigitValue(str[Len(str)])

\* strconv.ParseInt(str, 10, 64) for texts far shorter than 64 bits: an
\* optional sign and at least one digit; 0 and an error otherwise.
ParseInt(str) ==
    LET signed == str # <<>> /\ str[1] \in {"+", "-"}
        digits == IF signed THEN Tail(str) ELSE str
    IN IF digits # <<>> /\ \A i \in 1..Len(digits) : digits[i] \in Digits
       THEN [value |-> IF signed /\ str[1] = "-" THEN 0 - DecimalValue(digits)
                       ELSE DecimalValue(digits),
             err |-> FALSE]
       ELSE [value |-> 0, err |-> TRUE]

\* strconv.ParseBool: the texts it accepts; false and an error otherwise.
ParseBool(str) ==
    IF str \in {<<"1">>, <<"t">>, <<"T">>, <<"T", "R", "U", "E">>,
                <<"t", "r", "u", "e">>, <<"T", "r", "u", "e">>}
    THEN [value |-> TRUE, err |-> FALSE]
    ELSE IF str \in {<<"0">>, <<"f">>, <<"F">>, <<"F", "A", "L", "S", "E">>,
                     <<"f", "a", "l", "s", "e">>, <<"F", "a", "l", "s", "e">>}
         THEN [value |-> FALSE, err |-> FALSE]
         ELSE [value |-> FALSE, err |-> TRUE]

ErrFailedToLoad == "failed to load configuration value for"
ErrUnsupportedTagValue == "unsupported tag value"
ErrUnsupportedOptions == "unsupported configuration options found"

\* The zero value of a field's type.
Zero(type) ==
    CASE type = "string" -> <<>>
      [] type = "int" -> 0
      [] type = "bool" -> FALSE

\* processConfigString, processConfigInt and processConfigBool: the field's
\* value afterwards and the error returned.
processConfigString(type, value, cfgValue) ==
    IF type = "string" /\ value = <<>> THEN cfgValue ELSE value

\* processConfigInt returning no error when the text is no integer.
processConfigIntNeverFails(type, value, cfgValue, panicOnFail) ==
    IF type = "int" /\ value = 0
    THEN [value |-> ParseInt(cfgValue).value, err |-> ""]
    ELSE [value |-> value, err |-> ""]

processConfigInt(type, value, cfgValue, panicOnFail) ==
    IF type = "int" /\ value = 0
    THEN LET parsed == ParseInt(cfgValue)
         IN IF parsed.err /\ panicOnFail
            THEN [value |-> value, err |-> ErrFailedToLoad]
            ELSE [value |-> parsed.value, err |-> ""]
    ELSE [value |-> value, err |-> ""]

processConfigBool(type, value, cfgValue, panicOnFail) ==
    IF type = "bool" /\ value = FALSE
    THEN LET parsed == ParseBool(cfgValue)
         IN IF parsed.err /\ panicOnFail
            THEN [value |-> value, err |-> ErrFailedToLoad]
            ELSE [value |-> parsed.value, err |-> ""]
    ELSE [value |-> value, err |-> ""]

processConfigValue(type, value, cfgValue, panicOnFail) ==
    LET afterString == processConfigString(type, value, cfgValue)
        afterInt == processConfigInt(type, afterString, cfgValue, panicOnFail)
    IN IF afterInt.err # ""
       THEN afterInt
       ELSE processConfigBool(type, afterInt.value, cfgValue, panicOnFail)

hasOption(tag, name) == name \in DOMAIN tag.options

NoValue == [value |-> <<>>, ok |-> FALSE]

\* processConfiguration on a field [type, value, canSet] with a parsed tag:
\* the error returned, the field's value afterwards and cfgValue, the text
\* chosen for the field (ok is false when there is none).
processConfiguration(args, env, field, tag) ==
    LET panicOnFail == hasOption(tag, "panic")
        hasDefault == hasOption(tag, "default")
        defaultCfg == IF hasDefault THEN tag.options["default"] ELSE <<>>
    IN IF ~hasOption(tag, "key")
       THEN [err |-> ErrUnsupportedOptions, value |-> field.value, chosen |-> NoValue]
       ELSE LET cfgKey == tag.options["key"]
                found == getConfig(cfgKey, args, env)
                cfgValue == IF ~found.ok /\ hasDefault THEN defaultCfg ELSE found.value
            IN IF Len(cfgKey) = 0
               THEN [err |-> ErrUnsupportedTagValue, value |-> field.value, chosen |-> NoValue]
               ELSE IF found.ok \/ hasDefault
                    THEN IF field.canSet
                         THEN LET set == processConfigValue(field.type, field.value, cfgValue,
                                                            panicOnFail)
                              IN [err |-> set.err, value |-> set.value,
                                  chosen |-> [value |-> cfgValue, ok |-> TRUE]]
                         ELSE [err |-> "", value |-> field.value,
                               chosen |-> [value |-> cfgValue, ok |-> TRUE]]
                    ELSE [err |-> IF panicOnFail THEN ErrFailedToLoad ELSE "",
                          value |-> field.value, chosen |-> NoValue]

\* resolveDependency on a Created component with one "config" field and an
\* Init that succeeds: a configuration error returns before Init is called.
resolveConfig(in) ==
    LET cfg == processConfiguration(in.args, in.env, in.field, in.tag)
    IN [err |-> cfg.err,
        value |-> cfg.value,
        chosen |-> cfg.chosen,
        state |-> IF cfg.err # "" THEN "Created" ELSE "Initialized"]

KeyK == <<"k">>

\* What stands on the command line behind the program's name.
ArgWords == {<<"-", "-", "k">>, <<"-", "-", "j">>, <<"-", "-">>, <<"1">>, <<"x">>}

ArgLists ==
    UNION {{<<<<"p">>>> \o l : l \in [1..n -> ArgWords]} : n \in 0..MaxArgs}

\* The environment: k unset, or set to a text.
Environments ==
    {[n \in {} |-> <<>>]} \cup {[n \in {KeyK} |-> v] : v \in {<<"t">>, <<"2">>}}

ConfigFields ==
    {[type |-> t, value |-> Zero(t), canSet |-> TRUE] : t \in {"string", "int", "bool"}}
    \cup {[type |-> "string", value |-> <<"s">>, canSet |-> TRUE],
          [type |-> "int", value |-> 5, canSet |-> TRUE],
          [type |-> "bool", value |-> TRUE, canSet |-> TRUE],
          [type |-> "int", value |-> 0, canSet |-> FALSE]}

\* The option maps of the "config" tags: key, panic and default, each there or not.
OptionMaps ==
    {o \in UNION {[d -> {<<>>, KeyK, <<"0">>, <<"d">>}] : d \in SUBSET {"key", "panic", "default"}} :
        /\ "key" \in DOMAIN o => o["key"] \in {<<>>, KeyK}
        /\ "panic" \in DOMAIN o => o["panic"] = <<>>
        /\ "default" \in DOMAIN o => o["default"] \in {<<"0">>, <<"d">>}}

ConfigTags == {[name |-> "config", options |-> o] : o \in OptionMaps}

ConfigInit ==
    /\ BusInit /\ NoThreads /\ NoRegistry /\ NoSession
    /\ input \in [args : ArgLists, env : Environments, field : ConfigFields, tag : ConfigTags]
    /\ output = NIL

resolveConfigCall ==
    /\ output = NIL
    /\ output' = resolveConfig(input)
    /\ UNCHANGED <<busVars, th, regVars, lock, input, sesVars, goVars>>

NextConfig == resolveConfigCall

SpecConfig == ConfigInit /\ [][NextConfig]_vars

(***************************************************************************)
(* Properties of the configuration values.                                 *)
(***************************************************************************)
\* The call under test has returned for a "config" tag with the key k.
ConfiguredK ==
    /\ output # NIL
    /\ hasOption(input.tag, "key")
    /\ input.tag.options["key"] = KeyK

Flag(name) == <<"-", "-">> \o name

\* An argument the command line reads as a flag: two dashes and a name.
IsFlag(arg) == HasPrefix(arg, <<"-", "-">>) /\ Len(arg) > 2

\* The places of the entries --k that an argument follows.
EntriesK == {i \in 1..(Len(input.args) - 1) : input.args[i] = Flag(KeyK)}

\* The places of the entries --k that an argument which is no flag follows.
ValuedEntriesK == {i \in EntriesK : ~IsFlag(input.args[i + 1])}

\* The value the environment or else the default gives.
EnvOrDefault ==
    IF KeyK \in DOMAIN input.env
    THEN [value |-> input.env[KeyK], ok |-> TRUE]
    ELSE IF hasOption(input.tag, "default")
         THEN [value |-> input.tag.options["default"], ok |-> TRUE]
         ELSE NoValue

\* C21 as stated: the value chosen for the key k is the argument following
\* an entry --k of the command line if there is one, else the environment
\* variable k if it is set, else the tag's default if it has one, else none.
C21_ConfigPrecedenceAnyFollower ==
    ConfiguredK =>
        IF EntriesK # {}
        THEN /\ output.chosen.ok
             /\ \E i \in EntriesK : output.chosen.value = input.args[i + 1]
        ELSE output.chosen = EnvOrDefault

\* C21 amended: the value chosen for the key k is the argument following
\* the first entry --k whose follower is not itself a flag, if there is
\* one, else the environment variable k if it is set, else the tag's
\* default if it has one, else none.
C21_ConfigPrecedence ==
    ConfiguredK =>
        IF ValuedEntriesK # {}
        THEN LET first == CHOOSE i \in ValuedEntriesK : \A j \in ValuedEntriesK : i <= j
             IN output.chosen = [value |-> input.args[first + 1], ok |-> TRUE]
        ELSE output.chosen = EnvOrDefault

\* The command line has given the value although the environment variable
\* is set and the tag has a default.
C21_Witness ==
    /\ ConfiguredK
    /\ ValuedEntriesK # {}
    /\ KeyK \in DOMAIN input.env
    /\ hasOption(input.tag, "default")
    /\ output.chosen.value \notin {input.env[KeyK], input.tag.options["default"]}

\* No value was found for the field and its tag has no default.
Missing == ~output.chosen.ok

\* The text chosen for the field is no value of the field's type.
Uncoercible ==
    /\ output.chosen.ok
    /\ \/ input.field.type = "int" /\ ParseInt(output.chosen.value).err
       \/ input.field.type = "bool" /\ ParseBool(output.chosen.value).err

AtZero == input.field.value = Zero(input.field.type)

\* Resolution succeeds with the field at zero when "panic" is unset, and
\* returns an error without initializing the component when it is set.
SoftOrHard ==
    IF hasOption(input.tag, "panic")
    THEN output.err # "" /\ output.state # "Initialized"
    ELSE output.err = "" /\ output.state = "Initialized"
         /\ output.value = Zero(input.field.type)

MaxText == 7

\* strings.Split(str, sep) for a separator of one character.
RECURSIVE StringsSplit(_, _)
StringsSplit(str, sep) ==
    LET at == {i \in 1..Len(str) : str[i] = sep}
    IN IF at = {}
       THEN <<str>>
       ELSE LET i == CHOOSE j \in at : \A k \in at : j <= k
            IN <<SubSeq(str, 1, i - 1)>> \o StringsSplit(SubSeq(str, i + 1, Len(str)), sep)

\* The loop of Split over the tokens from place i on: its local variables
\* when it ends.
RECURSIVE SplitLoop(_, _, _, _, _, _, _)
SplitLoop(tokens, sep, quote, i, result, summarizedToken, summarizing) ==
    IF i > Len(tokens)
    THEN [result |-> result, summarizedToken |-> summarizedToken]
    ELSE LET token == tokens[i]
             count == Len(StringsSplit(token, quote)) - 1
             odd == count = 1 \/ count % 2 # 0
             nowSummarizing == IF odd THEN ~summarizing ELSE summarizing
             joined == IF summarizing THEN summarizedToken \o <<sep>> \o token ELSE token
         IN IF nowSummarizing
            THEN SplitLoop(tokens, sep, quote, i + 1, result, joined, TRUE)
            ELSE SplitLoop(tokens, sep, quote, i + 1, Append(result, joined), <<>>, FALSE)

\* Split without the check for a quote left open.
SplitNeverFails(str, sep, quote) ==
    [tokens |-> SplitLoop(StringsSplit(str, sep), sep, quote, 1, <<>>, <<>>, FALSE).result,
     ok |-> TRUE]

\* Split cutting at every separator, those inside quoted spans too, and
\* failing when the number of quotes is odd.
SplitAtEverySeparator(str, sep, quote) ==
    IF (Len(StringsSplit(str, quote)) - 1) % 2 = 0
    THEN [tokens |-> StringsSplit(str, sep), ok |-> TRUE]
    ELSE [tokens |-> <<>>, ok |-> FALSE]

\* Split: the tokens and ok; no tokens (nil) and false for a quote left open.
Split(str, sep, quote) ==
    LET end == SplitLoop(StringsSplit(str, sep), sep, quote, 1, <<>>, <<>>, FALSE)
    IN IF end.summarizedToken = <<>>
       THEN [tokens |-> end.result, ok |-> TRUE]
       ELSE [tokens |-> <<>>, ok |-> FALSE]

TextChars == {"a", ",", "'"}

Texts == UNION {[1..n -> TextChars] : n \in 0..MaxText}

SplitInit ==
    /\ BusInit /\ NoThreads /\ NoRegistry /\ NoSession
    /\ input \in [s : Texts, sep : {","}, quote : {"'"}]
    /\ output = NIL

SplitCall ==
    /\ output = NIL
    /\ output' = Split(input.s, input.sep, input.quote)
    /\ UNCHANGED <<busVars, th, regVars, lock, input, sesVars, goVars>>

NextSplit == SplitCall

SpecSplit == SplitInit /\ [][NextSplit]_vars

\* The reference splitter: one pass over the characters from place i on,
\* quoted telling whether a quoted span is open, current the token read so
\* far and done the tokens before it.  It splits at the separators outside
\* quoted spans and fails when the text ends inside one.
RECURSIVE Scan(_, _, _, _, _, _, _)
Scan(str, sep, quote, i, quoted, current, done) ==
    IF i > Len(str)
    THEN IF quoted THEN [tokens |-> <<>>, ok |-> FALSE]
         ELSE [tokens |-> Append(done, current), ok |-> TRUE]
    ELSE IF str[i] = quote
         THEN Scan(str, sep, quote, i + 1, ~quoted, Append(current, str[i]), done)
         ELSE IF str[i] = sep /\ ~quoted
              THEN Scan(str, sep, quote, i + 1, quoted, <<>>, Append(done, current))
              ELSE Scan(str, sep, quote, i + 1, quoted, Append(current, str[i]), done)

Reference(str, sep, quote) == Scan(str, sep, quote, 1, FALSE, <<>>, <<>>)

\* C23: for every text Split returns what the reference splitter returns:
\* ok = false exactly when the text ends inside a quoted span, and otherwise
\* the tokens between the separators that lie outside quoted spans.
C23_SplitAgreesWithReference ==
    output # NIL => output = Reference(input.s, input.sep, input.quote)

\* Split has kept a separator inside a quoted span and split at one outside.
C23_Witness ==
    /\ output # NIL /\ output.ok
    /\ Len(output.tokens) >= 2
    /\ \E k \in 1..Len(output.tokens) : "," \in {output.tokens[k][j] : j \in 1..Len(output.tokens[k])}

MaxTag == 6

\* strings.TrimLeft(str, cutset) and strings.Trim(str, cutset): str without
\* its leading, and without its leading and trailing, characters of cutset.
RECURSIVE TrimLeft(_, _)
TrimLeft(str, cutset) ==
    IF str # <<>> /\ str[1] \in cutset THEN TrimLeft(Tail(str), cutset) ELSE str

RECURSIVE TrimRight(_, _)
TrimRight(str, cutset) ==
    IF str # <<>> /\ str[Len(str)] \in cutset
    THEN TrimRight(SubSeq(str, 1, Len(str) - 1), cutset)
    ELSE str

Trim(str, cutset) == TrimRight(TrimLeft(str, cutset), cutset)

TrimSpace(str) == Trim(str, {" "})

\* The loop of parseStructTag over the tokens from place i on: the options
\* read, and ok = false when a token has no or more than two subtokens.
RECURSIVE parseOptions(_, _, _)
parseOptions(tokens, i, options) ==
    IF i > Len(tokens)
    THEN [ok |-> TRUE, options |-> options]
    ELSE LET subtokens == Split(tokens[i], ":", "'").tokens
         IN IF Len(subtokens) > 0 /\ Len(subtokens) < 3
            THEN LET key == subtokens[1]
                     value == IF Len(subtokens) = 2 THEN Trim(subtokens[2], {" ", "'"}) ELSE <<>>
                 IN parseOptions(tokens, i + 1,
                        [k \in DOMAIN options \cup {key} |-> IF k = key THEN value ELSE options[k]])
            ELSE [ok |-> FALSE, options |-> <<>>]

NoTag == [ok |-> FALSE, name |-> <<>>, options |-> <<>>]

\* parseStructTag keeping the quotes and spaces around a value.
parseStructTagUntrimmed(tagValue) ==
    LET RECURSIVE untrimmed(_, _, _)
        untrimmed(tokens, i, options) ==
            IF i > Len(tokens)
            THEN [ok |-> TRUE, options |-> options]
            ELSE LET subtokens == Split(tokens[i], ":", "'").tokens
                 IN IF Len(subtokens) > 0 /\ Len(subtokens) < 3
                    THEN LET key == subtokens[1]
                             value == IF Len(subtokens) = 2 THEN subtokens[2] ELSE <<>>
                         IN untrimmed(tokens, i + 1,
                                [k \in DOMAIN options \cup {key} |->
                                    IF k = key THEN value ELSE options[k]])
                    ELSE [ok |-> FALSE, options |-> <<>>]
        split == Split(tagValue, ",", "'")
    IN IF ~split.ok
       THEN NoTag
       ELSE LET parsed == untrimmed(split.tokens, 2, <<>>)
            IN IF parsed.ok
               THEN [ok |-> TRUE, name |-> TrimSpace(split.tokens[1]), options |-> parsed.options]
               ELSE NoTag

\* parseStructTag: the tag [name, options] and ok.
parseStructTag(tagValue) ==
    LET split == Split(tagValue, ",", "'")
    IN IF ~split.ok
       THEN NoTag
       ELSE LET parsed == parseOptions(split.tokens, 2, <<>>)
            IN IF parsed.ok
               THEN [ok |-> TRUE, name |-> TrimSpace(split.tokens[1]), options |-> parsed.options]
               ELSE NoTag

\* The words of the tags and the names of the registry, as strings.
WireWord == <<"w", "i", "r", "e">>
ConfigWord == <<"c", "o", "n", "f", "i", "g">>
NameWord == <<"n", "a", "m", "e">>
KeyWord == <<"k", "e", "y">>
PanicWord == <<"p", "a", "n", "i", "c">>
DefaultWord == <<"d", "e", "f", "a", "u", "l", "t">>
TestWord == <<"t", "e", "s", "t">>

ErrUnparsableTag == "field contains unparsable tag"
ErrUnsupportedTag == "dependency field has unsupported tag"
ErrNotFound == "dependency value not found for"

\* The options of a parsed "config" tag under the names processConfiguration
\* asks for.
ConfigOptions(options) ==
    LET word == [n \in {"key", "panic", "default"} |->
                    CASE n = "key" -> KeyWord [] n = "panic" -> PanicWord [] n = "default" -> DefaultWord]
    IN [n \in {m \in {"key", "panic", "default"} : word[m] \in DOMAIN options} |-> options[word[n]]]

\* resolveDependency after parseStructTag, on a Created component whose only
\* tagged field F has the parsed tag.  F is a settable string for "config"
\* and a pointer to a component registered under the names default and test
\* for "wire"; Init succeeds, the command line and the environment are empty.
resolveParsed(parsedTag) ==
    LET failed(err) == [err |-> err, state |-> "Created", wiredName |-> <<>>]
        initialized(name) == [err |-> "", state |-> "Initialized", wiredName |-> name]
        wire(entryName) ==
            IF entryName \in {DefaultWord, TestWord} THEN initialized(entryName) ELSE failed(ErrNotFound)
        config(cfg) == IF cfg.err # "" THEN failed(cfg.err) ELSE initialized(<<>>)
    IN IF ~parsedTag.ok
       THEN failed(ErrUnparsableTag)
       ELSE IF parsedTag.name = WireWord
            THEN wire(IF NameWord \in DOMAIN parsedTag.options /\ parsedTag.options[NameWord] # <<>>
                      THEN parsedTag.options[NameWord] ELSE DefaultWord)
            ELSE IF parsedTag.name = ConfigWord
                 THEN config(processConfiguration(<<<<"p">>>>, [n \in {} |-> <<>>],
                                 [type |-> "string", value |-> <<>>, canSet |-> TRUE],
                                 [name |-> "config", options |-> ConfigOptions(parsedTag.options)]))
                 ELSE failed(ErrUnsupportedTag)

\* resolveDependency on a Created component whose only tagged field F has
\* the tag tagValue.
resolveTagged(tagValue) == resolveParsed(parseStructTag(tagValue))

\* resolveDependency on a component that wires, by the default name, a
\* component for which resolveDependency returns dependency: its error is
\* returned before Init is called.
resolveWiring(dependency) ==
    [err |-> dependency.err,
     state |-> IF dependency.err # "" THEN "Created" ELSE "Initialized"]

TagChars == {"a", ",", ":", "'", " "}

\* The tags of the fields of the test components.
TestTags ==
    {<<"w", "i", "r", "e">>,
     <<"w", "i", "r", "e", ",", "n", "a", "m", "e", ":", "t", "e", "s", "t">>,
     <<"w", "i", "r", "e", ",", "n", "a", "m", "e", ":", "u", "n", "k", "n", "o", "w", "n">>,
     <<"w", "i", "r", "e", ",", "n", "a", "m", "e", ":">>,
     <<"w", "i", "r", "e", ",", "n", "a", "m", "e", ":", "d", "e", "f", "a", "u", "l", "t">>,
     <<"w", "i", "r", "e", ",", "n", "a", "m", "e", ":", "d", "e", "f", "a", "u", "l", "t", ":", "u", "n", "s", "u", "p", "p", "o", "r", "t", "e", "d">>,
     <<"c", "o", "n", "f", "i", "g">>,
     <<"c", "o", "n", "f", "i", "g", ",", "k", "e", "y">>,
     <<"c", "o", "n", "f", "i", "g", ",", "k", "e", "y", ":", "k", ",", "p", "a", "n", "i", "c">>,
     <<"c", "o", "n", "f", "i", "g", ",", "k", "e", "y", ":", "k", ",", "d", "e", "f", "a", "u", "l", "t", ":", "'", "d", ":", "d", "'">>,
     <<"w", "i", "-", "r", "e", ",", "k", "e", "y", ":", "k", ",", "p", "a", "n", "i", "c">>}

TagTexts == UNION {[1..n -> TagChars] : n \in 0..MaxTag} \cup TestTags

TagInit ==
    /\ BusInit /\ NoThreads /\ NoRegistry /\ NoSession
    /\ input \in TagTexts
    /\ output = NIL

parseStructTagCall ==
    /\ output = NIL
    /\ output' = [op |-> "parseStructTag", tag |-> parseStructTag(input)]
    /\ UNCHANGED <<busVars, th, regVars, lock, input, sesVars, goVars>>

resolveTaggedCall ==
    /\ output = NIL
    /\ LET both(owner) == [op |-> "resolveDependency",
                             owner |-> owner, wiring |-> resolveWiring(owner)]
       IN output' = both(resolveTagged(input))
    /\ UNCHANGED <<busVars, th, regVars, lock, input, sesVars, goVars>>

NextTag == parseStructTagCall \/ resolveTaggedCall

SpecTag == TagInit /\ [][NextTag]_vars

Parsed == output # NIL /\ output.op = "parseStructTag"

\* The tokens of the tag between the commas outside quotes, and the pieces
\* of a token between the colons outside quotes, by the reference splitter.
TagTokens == Reference(input, ",", "'")

Pieces(i) == Reference(TagTokens.tokens[i], ":", "'")

\* The value is the piece without the quotes and spaces around it.
IsStripped(value, piece) ==
    /\ \E a \in 0..Len(piece) : \E b \in a..Len(piece) :
          /\ value = SubSeq(piece, a + 1, b)
          /\ \A i \in (1..a) \cup ((b + 1)..Len(piece)) : piece[i] \in {" ", "'"}
    /\ value # <<>> => value[1] \notin {" ", "'"} /\ value[Len(value)] \notin {" ", "'"}

Resolved == output # NIL /\ output.op = "resolveDependency"

\* A token of the tag is an option with the colon and nothing behind it.
HasEmptyValue ==
    /\ TagTokens.ok
    /\ \E i \in 2..Len(TagTokens.tokens) :
          /\ Pieces(i).ok
          /\ Len(Pieces(i).tokens) = 2
          /\ Pieces(i).tokens[2] = <<>>

\* C25: a tag with an option that has the colon but no value behind it, such
\* as wire,name: , is a parse failure: resolving the component with the
\* field, or a component that wires it, returns "field contains unparsable
\* tag" and initializes neither.
C25_EmptyValueIsUnparsable ==
    (Resolved /\ HasEmptyValue) =>
        /\ output.owner.err = ErrUnparsableTag
        /\ output.owner.state # "Initialized"
        /\ output.wiring.err = ErrUnparsableTag
        /\ output.wiring.state # "Initialized"

(***************************************************************************)
(* The registry.  entries is a map from the qualified type name of a       *)
(* component to a map from registration name to entry.                     *)
(***************************************************************************)
\* The components the factories create: instances of two types.
Components == {[type |-> t, instance |-> n] : t \in {"A", "B"}, n \in {1, 2}}

RegNames == {DefaultName, "other"}

ErrAlreadyRegistered == "go aborted because component already registered under the name"

newEntry(name, cmp) == [name |-> name, component |-> cmp, state |-> "Created"]

\* r.entries[id][name], nil when there is none.
EntryAt(entries, id, name) ==
    IF id \in DOMAIN entries /\ name \in DOMAIN entries[id] THEN entries[id][name] ELSE NIL

\* entries with entries[id][name] = e.
PutEntry(entries, id, name, e) ==
    LET old == IF id \in DOMAIN entries THEN entries[id] ELSE <<>>
        new == [n \in DOMAIN old \cup {name} |-> IF n = name THEN e ELSE old[n]]
    IN [i \in DOMAIN entries \cup {id} |-> IF i = id THEN new ELSE entries[i]]

\* addEntry without the test of override: a registered pair is always replaced.
addEntryAlwaysOverriding(entries, name, override, cmp) ==
    [err |-> "", entries |-> PutEntry(entries, cmp.type, name, newEntry(name, cmp))]

\* addEntry: the error returned and the entries afterwards.
addEntry(entries, name, override, cmp) ==
    LET id == cmp.type
        e == newEntry(name, cmp)
    IN IF id \notin DOMAIN entries
       THEN [err |-> "", entries |-> PutEntry(entries, id, name, e)]
       ELSE IF EntryAt(entries, id, name) = NIL
            THEN [err |-> "", entries |-> PutEntry(entries, id, name, e)]
            ELSE IF override
                 THEN [err |-> "", entries |-> PutEntry(entries, id, name, e)]
                 ELSE [err |-> ErrAlreadyRegistered, entries |-> entries]

addEntryCall(name, override, cmp) ==
    LET r == addEntry(registry, name, override, cmp)
    IN /\ registry' = r.entries
       /\ sret' = [op |-> "addEntry", args |-> <<name, override, cmp>>, err |-> r.err]
       /\ UNCHANGED <<phase, factories>>

\* resolveDependency has initialized the entry.
entryInitialized(id, name) ==
    /\ EntryAt(registry, id, name) # NIL
    /\ registry[id][name].state = "Created"
    /\ registry' = [registry EXCEPT ![id][name].state = "Initialized"]
    /\ sret' = [op |-> "resolveDependency", args |-> <<id, name>>, err |-> ""]
    /\ UNCHANGED <<phase, factories>>

RegistryInit == BusInit /\ NoThreads /\ NoRegistry /\ NoCall

NextRegistry ==
    \/ \E name \in RegNames : \E override \in BOOLEAN : \E cmp \in Components :
          addEntryCall(name, override, cmp) /\ UNCHANGED <<busVars, th, regVars, lock, fnVars, goVars>>
    \/ \E id \in {"A", "B"} : \E name \in RegNames :
          entryInitialized(id, name) /\ UNCHANGED <<busVars, th, regVars, lock, fnVars, goVars>>

SpecRegistry == RegistryInit /\ [][NextRegistry]_vars

\* The pairs (qualified type name, registration name) the registry holds.
Pairs(entries) == UNION {{<<id, name>> : name \in DOMAIN entries[id]} : id \in DOMAIN entries}

\* C27: an insertion of a pair the registry holds returns an error and
\* leaves the registry as it was without override, and with override puts
\* the new component, in state Created, in the place of the old entry; an
\* insertion of a new pair adds the entry; the entries of all other pairs
\* stay as they are, so the registry never holds two entries of one pair.
C27_RegistryPairsUnique ==
    [][sret'.op = "addEntry" =>
          LET name == sret'.args[1]
              override == sret'.args[2]
              cmp == sret'.args[3]
              held == <<cmp.type, name>> \in Pairs(registry)
          IN IF held /\ ~override
             THEN sret'.err # "" /\ registry' = registry
             ELSE /\ sret'.err = ""
                  /\ Pairs(registry') = Pairs(registry) \cup {<<cmp.type, name>>}
                  /\ registry'[cmp.type][name] = newEntry(name, cmp)
                  /\ \A q \in Pairs(registry) \ {<<cmp.type, name>>} :
                        registry'[q[1]][q[2]] = registry[q[1]][q[2]]]_vars

\* An insertion with override has put its component into the registry while
\* another entry is initialized already.
C27_Witness ==
    /\ sret.op = "addEntry" /\ sret.args[2] /\ sret.err = ""
    /\ \E q \in Pairs(registry) :
          /\ registry[q[1]][q[2]].component = sret.args[3]
          /\ \E p \in Pairs(registry) \ {q} : registry[p[1]][p[2]].state = "Initialized"

(***************************************************************************)
(* The session: its phase and its factories.                               *)
(***************************************************************************)
MaxFactories == 2

Phases == <<"initializing", "booting", "running", "stopping", "exiting">>

errSessionRegisterNameOrFunction ==
    "name and function for component factory registration is required"

errSessionRegisterComponentOutsideInitialize ==
    "register component not allowed after boot has been started"

ErrPhaseMismatch == "current boot phase doesn't match expected boot phase"

\* A component: its type, the handler its Init subscribes, and when its Start
\* returns.
Cmp(kind, handler, ends) == [kind |-> kind, handler |-> handler, ends |-> ends]

RuntimeCmp == Cmp("runtime", NIL, "none")

EventbusCmp == Cmp("eventbus", NIL, "none")

\* A factory function and the component it returns.
Create(name, cmp) == [kind |-> "func", name |-> name, returns |-> cmp]

\* The factories of the runtime and of the event bus that NewSession registers.
DefaultFactories ==
    <<[create |-> Create("runtime", RuntimeCmp), name |-> DefaultName, override |-> FALSE],
      [create |-> Create("eventbus", EventbusCmp), name |-> DefaultName, override |-> FALSE]>>

\* The factory functions a caller passes: nil, or a function.
Creates ==
    {NIL, Create("createA", Cmp("component", NIL, "none")),
          Create("createB", Cmp("component", NIL, "none"))}

\* nextPhaseAfter: the error returned and the phase afterwards.
nextPhaseAfter(current, expected) ==
    LET newPhase ==
            CASE current = "initializing" -> "booting"
              [] current = "booting" -> "running"
              [] current = "running" -> "stopping"
              [] current = "stopping" -> "exiting"
              [] OTHER -> "initializing"
    IN IF expected # current
       THEN [err |-> ErrPhaseMismatch, phase |-> current]
       ELSE [err |-> "", phase |-> newPhase]

\* register without the test of the phase.
registerInAnyPhase(current, list, name, create, override) ==
    IF name = "" \/ create = NIL
    THEN [err |-> errSessionRegisterNameOrFunction, factories |-> list]
    ELSE [err |-> "",
          factories |-> Append(list, [create |-> create, name |-> name, override |-> override])]

\* register: the error returned and the factories afterwards.
register(current, list, name, create, override) ==
    IF name = "" \/ create = NIL
    THEN [err |-> errSessionRegisterNameOrFunction, factories |-> list]
    ELSE IF current # "initializing"
         THEN [err |-> errSessionRegisterComponentOutsideInitialize, factories |-> list]
         ELSE [err |-> "",
               factories |-> Append(list, [create |-> create, name |-> name, override |-> override])]

registerCall(op, name, create, override) ==
    LET r == register(phase, factories, name, create, override)
    IN /\ Len(factories) < Len(DefaultFactories) + MaxFactories
       /\ factories' = r.factories
       /\ sret' = [op |-> op, args |-> [name |-> name, create |-> create], err |-> r.err]
       /\ UNCHANGED <<phase, registry>>

Register(create) == registerCall("Register", DefaultName, create, FALSE)

Override(create) == registerCall("Override", DefaultName, create, TRUE)

RegisterName(name, create) == registerCall("RegisterName", name, create, FALSE)

OverrideName(name, create) == registerCall("OverrideName", name, create, TRUE)

nextPhaseAfterCall(expected) ==
    LET r == nextPhaseAfter(phase, expected)
    IN /\ phase' = r.phase
       /\ sret' = [op |-> "nextPhaseAfter", args |-> [expected |-> expected], err |-> r.err]
       /\ UNCHANGED <<factories, registry>>

SessionInit ==
    /\ BusInit /\ NoThreads /\ NoRegistry
    /\ input = NIL /\ output = NIL
    /\ phase = "initializing"
    /\ factories = DefaultFactories
    /\ registry = <<>>
    /\ sret = [op |-> "NewSession", args |-> [none |-> TRUE], err |-> ""]
    /\ goPc = GoAt("idle", 0) /\ instances = <<>> /\ procs = <<>> /\ wg = 0
    /\ signals = 0 /\ waiter = "none" /\ trace = <<>>
    /\ shut = [calls |-> 0, blocked |-> 0]
    /\ option = DefaultOptions

NextSession ==
    \/ \E create \in Creates :
          Register(create) /\ UNCHANGED <<busVars, th, regVars, lock, fnVars, goVars>>
    \/ \E create \in Creates :
          Override(create) /\ UNCHANGED <<busVars, th, regVars, lock, fnVars, goVars>>
    \/ \E name \in {"", DefaultName, "other"} : \E create \in Creates :
          RegisterName(name, create) /\ UNCHANGED <<busVars, th, regVars, lock, fnVars, goVars>>
    \/ \E name \in {"", DefaultName, "other"} : \E create \in Creates :
          OverrideName(name, create) /\ UNCHANGED <<busVars, th, regVars, lock, fnVars, goVars>>
    \/ \E expected \in {Phases[i] : i \in 1..Len(Phases)} :
          nextPhaseAfterCall(expected) /\ UNCHANGED <<busVars, th, regVars, lock, fnVars, goVars>>

SpecSession == SessionInit /\ [][NextSession]_vars

\* C28: Register, RegisterName, Override and OverrideName append the
\* factory, under the default or the given name and with their override
\* flag, only in the phase initializing and only for a non-empty name and a
\* function that is not nil; otherwise they return the error for the name
\* or function, or the error for the phase, and the factories stay as they
\* are.
C28_RegisterOnlyWhileInitializing ==
    [][sret'.op \in {"Register", "RegisterName", "Override", "OverrideName"} =>
          LET name == sret'.args.name
              create == sret'.args.create
              wellFormed == name # "" /\ create # NIL
          IN /\ sret'.op \in {"Register", "Override"} => name = DefaultName
             /\ IF wellFormed /\ phase = "initializing"
                THEN /\ sret'.err = ""
                     /\ factories' = Append(factories,
                           [create |-> create, name |-> name,
                            override |-> sret'.op \in {"Override", "OverrideName"}])
                ELSE /\ factories' = factories
                     /\ sret'.err = IF wellFormed
                                    THEN errSessionRegisterComponentOutsideInitialize
                                    ELSE errSessionRegisterNameOrFunction]_vars

\* A registration was refused because the session had left the phase
\* initializing.
C28_Witness ==
    /\ sret.op \in {"Register", "RegisterName", "Override", "OverrideName"}
    /\ sret.err = errSessionRegisterComponentOutsideInitialize
    /\ phase # "initializing"
    /\ Len(factories) > Len(DefaultFactories)

Successor(current) ==
    CASE current = "initializing" -> "booting"
      [] current = "booting" -> "running"
      [] current = "running" -> "stopping"
      [] current = "stopping" -> "exiting"
      [] current = "exiting" -> "exiting"

\* C29: nextPhaseAfter(expected) changes the phase only when expected is the
\* current phase, and then to its successor in the order initializing,
\* booting, running, stopping, exiting, with no new phase after exiting;
\* otherwise it returns an error and the phase stays as it is.
C29_NextPhaseIsSuccessor ==
    [][sret'.op = "nextPhaseAfter" =>
          IF sret'.args.expected = phase
          THEN sret'.err = "" /\ phase' = Successor(phase)
          ELSE sret'.err # "" /\ phase' = phase]_vars

(***************************************************************************)
(* Session.Go with the goroutines it launches: one per process component,  *)
(* one that waits for the wait group, and the application calling          *)
(* Shutdown.                                                               *)
(***************************************************************************)
MaxComponents == 2

MaxShutdown == 2

\* make(chan os.Signal, 1)
ChannelSize == 1

\* Options with a DoMain that returns an error at once, and no DoShutdown.
FailOnDoMain == [DoMain |-> "fail", DoShutdown |-> "nil"]

\* The names the application registers its components under.
CmpNames == <<"first", "second", "third">>

\* The components of the application: eventbusActivationTest with a handler
\* that returns an error, returns nil or panics, a process whose Start returns once Stop was called,
\* and a process whose Start returns on its own.
UserComponents ==
    {Cmp("eventbusActivationTest", hErr, "none"),
     Cmp("eventbusActivationTest", hOk, "none"),
     Cmp("eventbusActivationTest", hPanic, "none"),
     Cmp("process", NIL, "onStop"),
     Cmp("process", NIL, "onItsOwn")}

testEvent == Event(TypeA, 1)

\* Every component taken for a Process.
isAnyComponent(cmp) == TRUE

isProcess(cmp) == cmp.kind = "process"

\* newComponentManager
newComponentManager(name, cmp) == [name |-> name, component |-> cmp, state |-> "Created"]

\* The goroutine of start() before it is launched.
NoProc == [gpc |-> "none", mu |-> "free", stopRequested |-> FALSE, err |-> ""]

\* The outcome of the current call of activate is an error.
activationFailed == last.op = "activate" /\ last.ret.kind # "nil"

\* Session.Go after activate: DoMain, or straight on to the shutdown.
afterActivateAlwaysDoMain(ret) == "DoMain"

afterActivate(ret) == IF ret.kind = "nil" THEN "DoMain" ELSE "toStopping"

\* stopComponents: the component of its i-th round, e[len(e)-i-1].
stopIndexForward(e, i) == i + 1

stopIndex(e, i) == Len(e) - i

\* The statement after round i of a loop over the components.
nextRound(at, i, then) == IF i + 1 < Len(instances) THEN GoAt(at, i + 1) ELSE GoAt(then, 0)

GoBegin ==
    /\ goPc.at = "idle"
    /\ LET r == nextPhaseAfter(phase, "initializing")
       IN /\ phase' = r.phase
          /\ IF r.err # ""
             THEN /\ goPc' = GoAt("returned", 0)
                  /\ sret' = [op |-> "Go", args |-> [none |-> TRUE], err |-> r.err]
             ELSE /\ goPc' = GoAt("create", 0)
                  /\ UNCHANGED sret
    /\ UNCHANGED <<option, busVars, factories, registry, instances, procs, wg, signals, waiter, trace, shut>>

\* createComponents and the componentManagers of resolveComponentDependencies.
\* The order of the registry's map is not specified: the application's
\* components come in the order GoInit has drawn, which is any order, after
\* the runtime and the event bus, which are no processes.
GoCreate ==
    /\ goPc.at = "create"
    /\ instances' = [i \in 1..Len(factories) |->
                        newComponentManager(factories[i].name, factories[i].create.returns)]
    /\ procs' = [i \in 1..Len(factories) |-> NoProc]
    /\ goPc' = GoAt("init", 0)
    /\ UNCHANGED <<option, busVars, sesVars, wg, signals, waiter, trace, shut>>

\* resolveDependency calls Init of the next component: the event bus resets
\* isStarted, eventbusActivationTest subscribes its handler.
GoInitComponent ==
    /\ goPc.at = "init"
    /\ LET i == goPc.i + 1
           cmp == instances[i].component
       IN CASE cmp.kind = "eventbus" ->
                 /\ eventBusInit
                 /\ instances' = [instances EXCEPT ![i].state = "Initialized"]
                 /\ goPc' = nextRound("init", goPc.i, "booting")
            [] cmp.kind = "eventbusActivationTest" ->
                 /\ Subscribe(cmp.handler)
                 /\ last' = Done("Subscribe", cmp.handler, SubscribeRet(cmp.handler), <<>>)
                 /\ goPc' = GoAt("initPublish", goPc.i)
                 /\ UNCHANGED instances
            [] OTHER ->
                 /\ instances' = [instances EXCEPT ![i].state = "Initialized"]
                 /\ goPc' = nextRound("init", goPc.i, "booting")
                 /\ UNCHANGED busVars
    /\ UNCHANGED <<option, sesVars, procs, wg, signals, waiter, trace, shut>>

\* eventbusActivationTest.Init publishes its event and returns.
GoInitPublish ==
    /\ goPc.at = "initPublish"
    /\ Publish(testEvent)
    /\ instances' = [instances EXCEPT ![goPc.i + 1].state = "Initialized"]
    /\ goPc' = nextRound("init", goPc.i, "booting")
    /\ UNCHANGED <<option, sesVars, procs, wg, signals, waiter, trace, shut>>

GoBooting ==
    /\ goPc.at = "booting"
    /\ LET r == nextPhaseAfter(phase, "booting")
       IN /\ phase' = r.phase
          /\ IF r.err # ""
             THEN /\ goPc' = GoAt("returned", 0)
                  /\ sret' = [op |-> "Go", args |-> [none |-> TRUE], err |-> r.err]
             ELSE /\ goPc' = GoAt("start", 0)
                  /\ UNCHANGED sret
    /\ UNCHANGED <<option, busVars, factories, registry, instances, procs, wg, signals, waiter, trace, shut>>

\* componentManager.start in the loop of startComponents.
start ==
    /\ goPc.at = "start"
    /\ LET i == goPc.i + 1
       IN /\ procs[i].mu = "free"
          /\ IF isProcess(instances[i].component) /\ instances[i].state = "Initialized"
             THEN /\ wg' = wg + 1
                  /\ procs' = [procs EXCEPT ![i].gpc = "spawned"]
             ELSE UNCHANGED <<wg, procs>>
    /\ goPc' = nextRound("start", goPc.i, "fork")
    /\ UNCHANGED <<option, busVars, sesVars, instances, signals, waiter, trace, shut>>

\* go func() { s.waitUntilAllComponentsStopped(registry) }()
GoFork ==
    /\ goPc.at = "fork"
    /\ waiter' = "waiting"
    /\ goPc' = GoAt("activate", 0)
    /\ UNCHANGED <<option, busVars, sesVars, instances, procs, wg, signals, trace, shut>>

GoActivate ==
    /\ goPc.at = "activate"
    /\ activate
    /\ goPc' = GoAt(afterActivate(last'.ret), 0)
    /\ trace' = IF goPc'.at = "DoMain" THEN Append(trace, <<"DoMain", 0>>) ELSE trace
    /\ UNCHANGED <<option, sesVars, instances, procs, wg, signals, waiter, shut>>

\* DoMain of NewSession: sig := <-localShutdownChannel
DoMain ==
    /\ goPc.at = "DoMain"
    /\ option.DoMain = "default"
    /\ signals > 0
    /\ signals' = signals - 1
    /\ goPc' = GoAt("toStopping", 0)
    /\ UNCHANGED <<option, busVars, sesVars, instances, procs, wg, waiter, trace, shut>>

\* DoMain of the options returns an error: Go logs it and returns it.
DoMainFails ==
    /\ goPc.at = "DoMain"
    /\ option.DoMain = "fail"
    /\ sret' = [op |-> "Go", args |-> [none |-> TRUE], err |-> "fail"]
    /\ goPc' = GoAt("returned", 0)
    /\ UNCHANGED <<option, busVars, phase, factories, registry, instances, procs, wg, signals, waiter, trace, shut>>

GoStopping ==
    /\ goPc.at = "toStopping"
    /\ phase' = nextPhaseAfter(phase, "running").phase
    /\ goPc' = GoAt("stop", 0)
    /\ UNCHANGED <<option, busVars, factories, registry, sret, instances, procs, wg, signals, waiter, trace, shut>>

\* componentManager.stop in the loop of stopComponents, up to the call of
\* process.Stop.
stop ==
    /\ goPc.at = "stop"
    /\ LET i == stopIndex(instances, goPc.i)
       IN /\ procs[i].mu = "free"
          /\ IF isProcess(instances[i].component) /\ instances[i].state = "Started"
             THEN /\ procs' = [procs EXCEPT ![i].mu = "stop", ![i].stopRequested = TRUE]
                  /\ trace' = Append(trace, <<"Stop", i>>)
                  /\ goPc' = GoAt("inStop", goPc.i)
             ELSE /\ goPc' = nextRound("stop", goPc.i, "toExiting")
                  /\ UNCHANGED <<option, procs, trace>>
    /\ UNCHANGED <<option, busVars, sesVars, instances, wg, signals, waiter, shut>>

\* process.Stop returns: the rest of componentManager.stop.
stopReturn ==
    /\ goPc.at = "inStop"
    /\ LET i == stopIndex(instances, goPc.i)
       IN /\ instances' = [instances EXCEPT ![i].state = "Stopped"]
          /\ wg' = wg - 1
          /\ procs' = [procs EXCEPT ![i].mu = "free"]
          /\ trace' = Append(trace, <<"StopReturn", i>>)
    /\ goPc' = nextRound("stop", goPc.i, "toExiting")
    /\ UNCHANGED <<option, busVars, sesVars, signals, waiter, shut>>

GoExiting ==
    /\ goPc.at = "toExiting"
    /\ LET r == nextPhaseAfter(phase, "stopping")
       IN /\ phase' = r.phase
          /\ sret' = [op |-> "Go", args |-> [none |-> TRUE], err |-> r.err]
    /\ goPc' = GoAt("returned", 0)
    /\ UNCHANGED <<option, busVars, factories, registry, instances, procs, wg, signals, waiter, trace, shut>>

\* The goroutine of start(): cmpmngr.state = Started under the mutex.
procStarted(i) ==
    /\ procs[i].gpc = "spawned"
    /\ procs[i].mu = "free"
    /\ instances' = [instances EXCEPT ![i].state = "Started"]
    /\ procs' = [procs EXCEPT ![i].gpc = "started"]
    /\ UNCHANGED <<option, busVars, sesVars, goPc, wg, signals, waiter, trace, shut>>

\* The goroutine of start() calls process.Start.
procStart(i) ==
    /\ procs[i].gpc = "started"
    /\ procs' = [procs EXCEPT ![i].gpc = "inStart"]
    /\ UNCHANGED <<option, busVars, sesVars, goPc, instances, wg, signals, waiter, trace, shut>>

\* process.Start returns, with an error or without: on its own, or once Stop
\* was called.
procStartReturn(i, err) ==
    /\ procs[i].gpc = "inStart"
    /\ instances[i].component.ends = "onItsOwn" \/ procs[i].stopRequested
    /\ err # "" => instances[i].component.ends = "onItsOwn"
    /\ procs' = [procs EXCEPT ![i].gpc = "returned", ![i].err = err]
    /\ UNCHANGED <<option, busVars, sesVars, goPc, instances, wg, signals, waiter, trace, shut>>

\* The goroutine of start() calling Done whatever the state is.
procDoneUnchecked(i) ==
    /\ procs[i].gpc = "returned"
    /\ procs[i].mu = "free"
    /\ wg' = wg - 1
    /\ instances' = [instances EXCEPT
                        ![i].state = IF procs[i].err = "" THEN "Stopped" ELSE "Failed"]
    /\ procs' = [procs EXCEPT ![i].gpc = "done"]
    /\ UNCHANGED <<option, busVars, sesVars, goPc, signals, waiter, trace, shut>>

\* The goroutine of start() after process.Start: Done and the final state,
\* if stop() has not done it.
procDone(i) ==
    /\ procs[i].gpc = "returned"
    /\ procs[i].mu = "free"
    /\ IF instances[i].state = "Started"
       THEN /\ wg' = wg - 1
            /\ instances' = [instances EXCEPT
                                ![i].state = IF procs[i].err = "" THEN "Stopped" ELSE "Failed"]
       ELSE UNCHANGED <<wg, instances>>
    /\ procs' = [procs EXCEPT ![i].gpc = "done"]
    /\ UNCHANGED <<option, busVars, sesVars, goPc, signals, waiter, trace, shut>>

\* waitUntilAllComponentsStopped: reg.executionWaitGroup.Wait() returns.
waitUntilAllComponentsStopped ==
    /\ waiter = "waiting"
    /\ wg = 0
    /\ waiter' = "sending"
    /\ UNCHANGED <<option, busVars, sesVars, goPc, instances, procs, wg, signals, trace, shut>>

\* waitUntilAllComponentsStopped returning without a call of Shutdown.
waiterReturnsWithoutShutdown ==
    /\ waiter = "sending"
    /\ waiter' = "done"
    /\ UNCHANGED <<option, busVars, sesVars, goPc, instances, procs, wg, signals, trace, shut>>

\* waitUntilAllComponentsStopped: s.Shutdown() sends the signal and returns.
waiterShutdown ==
    /\ waiter = "sending"
    /\ IF option.DoShutdown = "nil"
       THEN UNCHANGED signals
       ELSE /\ signals < ChannelSize
            /\ signals' = signals + 1
    /\ waiter' = "done"
    /\ UNCHANGED <<option, busVars, sesVars, goPc, instances, procs, wg, trace, shut>>

\* The application calls Session.Shutdown: the signal is sent if the channel
\* has room for it, and the call blocks if not.
Shutdown ==
    /\ shut.calls < MaxShutdown
    /\ IF option.DoShutdown = "nil"
       THEN /\ shut' = [shut EXCEPT !.calls = @ + 1]
            /\ UNCHANGED signals
       ELSE IF signals < ChannelSize
       THEN /\ signals' = signals + 1
            /\ shut' = [shut EXCEPT !.calls = @ + 1]
       ELSE /\ shut' = [calls |-> shut.calls + 1, blocked |-> shut.blocked + 1]
            /\ UNCHANGED signals
    /\ UNCHANGED <<option, busVars, sesVars, goPc, instances, procs, wg, waiter, trace>>

\* DoShutdown of NewSession: a blocked localShutdownChannel <- shutdownSignal
\* goes through.
DoShutdown ==
    /\ shut.blocked > 0
    /\ signals < ChannelSize
    /\ signals' = signals + 1
    /\ shut' = [shut EXCEPT !.blocked = @ - 1]
    /\ UNCHANGED <<option, busVars, sesVars, goPc, instances, procs, wg, waiter, trace>>

\* NewSession, and the application's components registered under names of
\* their own.
GoInit ==
    /\ BusInit /\ NoThreads /\ NoRegistry
    /\ input = NIL /\ output = NIL
    /\ phase = "initializing"
    /\ \E n \in 0..MaxComponents : \E cmps \in [1..n -> UserComponents] :
          factories = DefaultFactories \o
                         [i \in 1..n |-> [create |-> Create("create", cmps[i]),
                                          name |-> CmpNames[i], override |-> FALSE]]
    /\ registry = <<>>
    /\ sret = [op |-> "NewSession", args |-> [none |-> TRUE], err |-> ""]
    /\ goPc = GoAt("idle", 0) /\ instances = <<>> /\ procs = <<>> /\ wg = 0
    /\ signals = 0 /\ waiter = "none" /\ trace = <<>>
    /\ shut = [calls |-> 0, blocked |-> 0]
    /\ option \in {DefaultOptions, FailOnDoMain}

NextGo ==
    \/ GoBegin /\ UNCHANGED <<th, regVars, lock, fnVars>>
    \/ GoCreate /\ UNCHANGED <<th, regVars, lock, fnVars>>
    \/ GoInitComponent /\ UNCHANGED <<th, regVars, lock, fnVars>>
    \/ GoInitPublish /\ UNCHANGED <<th, regVars, lock, fnVars>>
    \/ GoBooting /\ UNCHANGED <<th, regVars, lock, fnVars>>
    \/ start /\ UNCHANGED <<th, regVars, lock, fnVars>>
    \/ GoFork /\ UNCHANGED <<th, regVars, lock, fnVars>>
    \/ GoActivate /\ UNCHANGED <<th, regVars, lock, fnVars>>
    \/ DoMain /\ UNCHANGED <<th, regVars, lock, fnVars>>
    \/ DoMainFails /\ UNCHANGED <<th, regVars, lock, fnVars>>
    \/ GoStopping /\ UNCHANGED <<th, regVars, lock, fnVars>>
    \/ stop /\ UNCHANGED <<th, regVars, lock, fnVars>>
    \/ stopReturn /\ UNCHANGED <<th, regVars, lock, fnVars>>
    \/ GoExiting /\ UNCHANGED <<th, regVars, lock, fnVars>>
    \/ \E i \in 1..Len(procs) : procStarted(i) /\ UNCHANGED <<th, regVars, lock, fnVars>>
    \/ \E i \in 1..Len(procs) : procStart(i) /\ UNCHANGED <<th, regVars, lock, fnVars>>
    \/ \E i \in 1..Len(procs) : \E err \in {"", "failed"} :
          procStartReturn(i, err) /\ UNCHANGED <<th, regVars, lock, fnVars>>
    \/ \E i \in 1..Len(procs) : procDone(i) /\ UNCHANGED <<th, regVars, lock, fnVars>>
    \/ waitUntilAllComponentsStopped /\ UNCHANGED <<th, regVars, lock, fnVars>>
    \/ waiterShutdown /\ UNCHANGED <<th, regVars, lock, fnVars>>
    \/ Shutdown /\ UNCHANGED <<th, regVars, lock, fnVars>>
    \/ DoShutdown /\ UNCHANGED <<th, regVars, lock, fnVars>>

SpecGo == GoInit /\ [][NextGo]_vars

\* The positions of the trace at which Stop of component i was called, and
\* at which it returned.
StopCalled(i) == {k \in DOMAIN trace : trace[k] = <<"Stop", i>>}

StopReturned(i) == {k \in DOMAIN trace : trace[k] = <<"StopReturn", i>>}

\* C26: on shutdown Stop goes to the components in the reverse of the order
\* in which they were initialized and started: of two process components A,
\* initialized before B, that stopComponents both finds in state Started,
\* B's Stop is invoked and has returned before A's Stop is invoked.
C26_StopInReverseOrder ==
    \A a, b \in 1..Len(instances) :
       (a < b /\ StopCalled(a) # {} /\ StopCalled(b) # {}) =>
           \A k \in StopCalled(a) :
              /\ \E c \in StopCalled(b) : c < k
              /\ \E r \in StopReturned(b) : r < k

\* Two processes were both stopped by stopComponents.
C26_Witness ==
    \E a, b \in 1..Len(instances) :
       /\ a < b
       /\ StopReturned(a) # {} /\ StopReturned(b) # {}
       /\ instances[a].state = "Stopped" /\ instances[b].state = "Stopped"

\* The call of DoMain, of Stop or the return of Stop that this step adds to
\* the trace.
Added(what) == Len(trace') = Len(trace) + 1 /\ trace'[Len(trace')][1] = what

\* C30: when the activation of the event bus fails in Session.Go, because a
\* handler of a queued event fails, Go does not enter DoMain, stopComponents
\* still calls Stop on every process it finds in state Started, in the phase
\* stopping, and Go ends in the phase exiting and returns no error.
C30_ActivationFailureShutsDown ==
    /\ [](activationFailed =>
            /\ \A k \in DOMAIN trace : trace[k][1] # "DoMain"
            /\ goPc.at # "DoMain"
            /\ goPc.at \in {"stop", "inStop"} => phase = "stopping"
            /\ goPc.at = "returned" =>
                  /\ phase = "exiting"
                  /\ sret = [op |-> "Go", args |-> [none |-> TRUE], err |-> ""]
                  /\ \A i \in 1..Len(instances) :
                        StopCalled(i) # {} =>
                           StopReturned(i) # {} /\ instances[i].state = "Stopped")
    /\ [][(activationFailed /\ goPc.at = "stop" /\ goPc' # goPc) =>
             LET i == Len(instances) - goPc.i
             IN (isProcess(instances[i].component) /\ instances[i].state = "Started") =>
                   /\ Added("Stop") /\ trace'[Len(trace')][2] = i
                   /\ phase = "stopping"]_vars

\* Go has returned after a failed activation, and a process that was
\* started has been stopped on the way.
C30_Witness ==
    /\ activationFailed
    /\ goPc.at = "returned"
    /\ phase = "exiting"
    /\ \E i \in 1..Len(instances) : StopReturned(i) # {}

(***************************************************************************)
(* The two splits of parseStructTag: the tag at the commas, then each      *)
(* token at the colons.                                                    *)
(***************************************************************************)
InnerChars == {"a", ",", ":", "'"}

InnerTexts == UNION {[1..n -> InnerChars] : n \in 0..MaxText}

\* Split(token, ":", "'") for every token the first split returned.
innerSplits(tokens) == [k \in 1..Len(tokens) |-> Split(tokens[k], ":", "'")]

InnerInit ==
    /\ BusInit /\ NoThreads /\ NoRegistry /\ NoSession
    /\ input \in InnerTexts
    /\ output = NIL

\* tokens, ok := Split(tagValue, ",", "'")
outerSplitCall ==
    /\ output = NIL
    /\ output' = [op |-> "Split", outer |-> Split(input, ",", "'"), inner |-> <<>>]
    /\ UNCHANGED <<busVars, th, regVars, lock, input, sesVars, goVars>>

\* subtokens, ok := Split(token, ":", "'") for each token.
innerSplitCall ==
    /\ output # NIL
    /\ output.op = "Split"
    /\ output.outer.ok
    /\ output' = [op |-> "Split twice", outer |-> output.outer,
                  inner |-> innerSplits(output.outer.tokens)]
    /\ UNCHANGED <<busVars, th, regVars, lock, input, sesVars, goVars>>

NextInner == outerSplitCall \/ innerSplitCall

SpecInner == InnerInit /\ [][NextInner]_vars

\* C40: for every text s for which Split(s, ",", "'") succeeds, the second
\* split Split(t, ":", "'") succeeds for every token t it returned.
C40_InnerSplitNeverFails ==
    (output # NIL /\ output.op = "Split twice") =>
        /\ Len(output.inner) = Len(output.outer.tokens)
        /\ \A k \in 1..Len(output.inner) : output.inner[k].ok

\* Both splits were made on a tag with a comma and a colon inside quotes and
\* a colon outside: the second split found two subtokens.
C40_Witness ==
    /\ output # NIL /\ output.op = "Split twice"
    /\ \E k \in 1..Len(output.inner) :
          /\ Len(output.inner[k].tokens) = 2
          /\ "," \in {output.outer.tokens[k][j] : j \in 1..Len(output.outer.tokens[k])}
          /\ \E m \in 1..2 : ":" \in {output.inner[k].tokens[m][j] : j \in 1..Len(output.inner[k].tokens[m])}

(***************************************************************************)
(* The routing keys of Subscribe and Publish, for a struct type of a       *)
(* package and for the predeclared type int.                               *)
(***************************************************************************)
NextKeys ==
    \/ \E h \in {hOk, hInt} :
          Subscribe(h) /\ last' = Done("Subscribe", h, SubscribeRet(h), <<>>) /\ UNCHANGED <<th, regVars, lock, fnVars, sesVars, goVars>>
    \/ \E e \in {Event(TypeA, 1), IntEvent} : Publish(e) /\ UNCHANGED <<th, regVars, lock, fnVars, sesVars, goVars>>
    \/ activate /\ UNCHANGED <<th, regVars, lock, fnVars, sesVars, goVars>>

SpecKeys == Init /\ [][NextKeys]_vars

\* C37: Subscribe and Publish derive the same routing key for the same
\* event type: Publish on an active bus of a value of type T invokes every
\* handler that Subscribe has accepted with the parameter type T, for a
\* struct type of a package as for a predeclared type such as int.
C37_PublishInvokesSubscribed ==
    [][(last'.op = "Publish" /\ isStarted) =>
          \A l \in Subscriptions :
             l.handler.in = last'.arg.type =>
                \E k \in 1..Len(last'.invoked) : last'.invoked[k][1] = l.id]_vars

(***************************************************************************)
(* The resolution pass.  resolveComponentDependencies ranges over the      *)
(* entries of the registry, a Go map, so in an order the runtime picks:    *)
(* input is that order.  It calls resolveDependency on each entry and      *)
(* appends the list the call returns; output is the loop, at position i,   *)
(* with the list appended so far.  The first error ends the pass.          *)
(***************************************************************************)
Orders == {o \in [1..Cardinality(Comps) -> Comps] : \A i, k \in 1..Len(o) : i # k => o[i] # o[k]}

PassAt(pc, i, entries, err) == [op |-> "resolveComponentDependencies", pc |-> pc, i |-> i, entries |-> entries, err |-> err]

\* newEntries, err := resolveDependency(entry, registry)
passCall ==
    /\ output.pc = "call"
    /\ rCall(input[output.i])
    /\ output' = [output EXCEPT !.pc = "append"]
    /\ UNCHANGED input

\* if err != nil { return nil, err }; entries = append(entries, newEntries...)
passAppend ==
    /\ output.pc = "append"
    /\ stack = <<>>
    /\ ~res.fault
    /\ output' = IF res.err # NoError
                 THEN PassAt("returned", output.i, <<>>, res.err)
                 ELSE PassAt(IF output.i = Len(input) THEN "returned" ELSE "call",
                             output.i + 1, output.entries \o res.entries, NoError)
    /\ UNCHANGED <<input, regVars>>

PassInit ==
    /\ BusInit /\ NoThreads /\ NoSession
    /\ input \in Orders
    /\ output = PassAt("call", 1, <<>>, NoError)
    /\ fields \in [Comps -> FieldLists]
    /\ \A c \in Comps : Len(fields[c]) <= MaxFields
    /\ initDoes \in {d \in InitChoices : \A c \in Comps : d[c] \in {"ok", "err"}}
    /\ state = [c \in Comps |-> "Created"]
    /\ wired = [c \in Comps |-> [j \in 1..Len(fields[c]) |-> "none"]]
    /\ stack = <<>>
    /\ initOrder = <<>>
    /\ resolved = <<>>
    /\ res = [entry |-> "none", entries |-> <<>>, err |-> NoError, fault |-> FALSE]

NextPass ==
    \/ passCall /\ UNCHANGED <<busVars, th, lock, sesVars, goVars>>
    \/ rField /\ UNCHANGED <<busVars, th, lock, fnVars, sesVars, goVars>>
    \/ rInit /\ UNCHANGED <<busVars, th, lock, fnVars, sesVars, goVars>>
    \/ passAppend /\ UNCHANGED <<busVars, th, lock, sesVars, goVars>>

SpecPass == PassInit /\ [][NextPass]_vars

Times(seq, x) == Cardinality({k \in 1..Len(seq) : seq[k] = x})

PassSucceeded == output.pc = "returned" /\ output.err = NoError

\* C32: after a resolution pass over all entries of a registry with acyclic
\* "wire" fields has returned without an error, every entry is Initialized,
\* the Init of every component has been called exactly once, and every entry
\* stands exactly once in the list the pass returns.
C32_PassResolvesEachEntryOnce ==
    (Acyclic /\ PassSucceeded) =>
        \A c \in Comps :
            /\ state[c] = "Initialized"
            /\ Times(initOrder, c) = 1
            /\ Times(output.entries, c) = 1

\* A pass has succeeded in which an entry was resolved as the dependency of
\* another one before the loop reached it, and by two dependents.
C32_Witness ==
    /\ Acyclic /\ PassSucceeded
    /\ \E a, b, d \in Comps :
          /\ a # b /\ Wires(a, d) /\ Wires(b, d)
          /\ Before(input, a, d) /\ Before(input, b, d)

(***************************************************************************)
(* Session.Go: the processes, the wait group and the return of Go.         *)
(***************************************************************************)
\* C39: Stop is invoked on a process at most once and only while its state
\* is Started: a process that the goroutine of start() has marked Stopped or
\* Failed after its Start returned is never sent Stop, and a component that
\* is no Process gets no goroutine, no Start and no Stop and never leaves
\* the state Initialized.
C39_StopOnlyWhileStarted ==
    /\ [](\A i \in 1..Len(instances) :
            /\ Cardinality(StopCalled(i)) <= 1
            /\ instances[i].component.kind # "process" =>
                  /\ procs[i].gpc = "none"
                  /\ StopCalled(i) = {}
                  /\ instances[i].state \in {"Created", "Initialized"})
    /\ [][Added("Stop") =>
            LET i == trace'[Len(trace')][2]
            IN /\ instances[i].component.kind = "process"
               /\ instances[i].state = "Started"
               /\ StopCalled(i) = {}]_vars

\* Go has returned; one process had failed on its own before stopComponents
\* reached it and got no Stop, another one was stopped.
C39_Witness ==
    /\ goPc.at = "returned"
    /\ \E i, j \in 1..Len(instances) :
          /\ instances[i].state = "Failed" /\ procs[i].gpc = "done" /\ StopCalled(i) = {}
          /\ StopReturned(j) # {}

\* start() has called Add(1) for the component and neither its goroutine nor
\* stop() has called Done yet.
Running(i) == procs[i].gpc # "none" /\ instances[i].state \in {"Initialized", "Started"}

\* C35: for every process started, Done is called exactly once for the
\* Add(1) of start(), by the goroutine when Start returns or by stop(),
\* whichever comes first: the counter of the wait group is the number of
\* started processes that have neither returned from Start nor been stopped,
\* so it is never negative and is zero once all of them have.
C35_WaitGroupCountsRunning ==
    /\ wg >= 0
    /\ wg = Cardinality({i \in 1..Len(instances) : Running(i)})

\* A process was stopped by stop() and its goroutine has then come back from
\* Start and finished, with the counter at zero.
C35_Witness ==
    /\ wg = 0
    /\ \E i \in 1..Len(instances) : StopReturned(i) # {} /\ procs[i].gpc = "done"

\* startComponents has been executed: Go has launched the goroutine that
\* waits for the wait group.
startComponentsDone == waiter # "none"

\* stopComponents has returned: Go stands behind its loop.
stopComponentsReturned ==
    /\ goPc.at \in {"toExiting", "returned"}
    /\ phase \in {"stopping", "exiting"}

\* C34: under every interleaving of the goroutines of start() with
\* stopComponents, no Start of a process begins once stopComponents has
\* returned, and every process whose Start is still running then has had
\* Stop invoked on it.
C34_NoStartAfterStopComponents ==
    /\ [](stopComponentsReturned =>
            \A i \in 1..Len(procs) :
               procs[i].gpc = "inStart" => procs[i].stopRequested)
    /\ [][\A i \in 1..Len(procs) :
             (procs[i].gpc # "inStart" /\ procs'[i].gpc = "inStart") =>
                 ~stopComponentsReturned]_vars

\* C36: on every path on which Go returns after startComponents, the one on
\* which DoMain returns an error included, stopComponents has been executed
\* before, and no component is in state Started when Go returns.
C36_StoppedBeforeGoReturns ==
    (goPc.at = "returned" /\ startComponentsDone) =>
        /\ stopComponentsReturned
        /\ \A i \in 1..Len(instances) : instances[i].state # "Started"

(***************************************************************************)
(* Session.Go under the scheduler of the Go runtime: every goroutine that  *)
(* can take a step takes it in the end, the one of Go, the ones of start() *)
(* and the one of waitUntilAllComponentsStopped, and a send that waits for *)
(* room in the channel goes through once there is room.  The session has  *)
(* the options of NewSession and the application registers Process         *)
(* components only, so no Init publishes an event and the event bus is     *)
(* activated with an empty queue.                                          *)
(***************************************************************************)
GoLiveInit ==
    /\ GoInit
    /\ option = DefaultOptions
    /\ \A k \in 1..Len(factories) :
          factories[k].create.returns.kind \in {"runtime", "eventbus", "process"}

NextGoLive ==
    \/ GoBegin /\ UNCHANGED <<th, regVars, lock, fnVars>>
    \/ GoCreate /\ UNCHANGED <<th, regVars, lock, fnVars>>
    \/ GoInitComponent /\ UNCHANGED <<th, regVars, lock, fnVars>>
    \/ GoBooting /\ UNCHANGED <<th, regVars, lock, fnVars>>
    \/ start /\ UNCHANGED <<th, regVars, lock, fnVars>>
    \/ GoFork /\ UNCHANGED <<th, regVars, lock, fnVars>>
    \/ GoActivate /\ UNCHANGED <<th, regVars, lock, fnVars>>
    \/ DoMain /\ UNCHANGED <<th, regVars, lock, fnVars>>
    \/ GoStopping /\ UNCHANGED <<th, regVars, lock, fnVars>>
    \/ stop /\ UNCHANGED <<th, regVars, lock, fnVars>>
    \/ GoExiting /\ UNCHANGED <<th, regVars, lock, fnVars>>
    \/ \E i \in 1..Len(procs) : procStarted(i) /\ UNCHANGED <<th, regVars, lock, fnVars>>
    \/ \E i \in 1..Len(procs) : procStart(i) /\ UNCHANGED <<th, regVars, lock, fnVars>>
    \/ \E i \in 1..Len(procs) : \E err \in {"", "failed"} :
          procStartReturn(i, err) /\ UNCHANGED <<th, regVars, lock, fnVars>>
    \/ \E i \in 1..Len(procs) : procDone(i) /\ UNCHANGED <<th, regVars, lock, fnVars>>
    \/ waitUntilAllComponentsStopped /\ UNCHANGED <<th, regVars, lock, fnVars>>
    \/ waiterShutdown /\ UNCHANGED <<th, regVars, lock, fnVars>>

\* The application never calls Shutdown: Go leaves DoMain once every process
\* has come back from Start, and stop() finds none of them in state Started.
SpecGoLive == GoLiveInit /\ [][NextGoLive]_vars /\ WF_vars(NextGoLive)

\* The application calls Shutdown whenever it likes.
NextGoCalls ==
    \/ NextGoLive
    \/ stopReturn /\ UNCHANGED <<th, regVars, lock, fnVars>>
    \/ Shutdown /\ UNCHANGED <<th, regVars, lock, fnVars>>
    \/ DoShutdown /\ UNCHANGED <<th, regVars, lock, fnVars>>

\* A step of a goroutine of the session, not of the application.
Scheduled == NextGoCalls /\ shut'.calls = shut.calls

SpecGoCalls == GoLiveInit /\ [][NextGoCalls]_vars /\ WF_vars(Scheduled)

\* Every Process component registered has a Start that returns on its own.
EveryStartReturns ==
    \A k \in 1..Len(factories) :
        factories[k].create.returns.kind = "process" =>
            factories[k].create.returns.ends = "onItsOwn"

\* C31: with the options of NewSession, when the Start of every Process
\* component returns on its own, or there is none, Go returns in the end,
\* with no call of Shutdown by the application and no signal of the
\* operating system: the session shuts itself down once all processes have
\* completed.
C31_GoReturnsWhenProcessesEnd ==
    (option = DefaultOptions /\ EveryStartReturns) ~> (goPc.at = "returned")

\* Go has gone through DoMain and returned, the application has not called
\* Shutdown, and a process has come back from Start on its own.
C31_Witness ==
    /\ option = DefaultOptions /\ EveryStartReturns
    /\ goPc.at = "returned" /\ shut.calls = 0
    /\ \E k \in DOMAIN trace : trace[k][1] = "DoMain"
    /\ \E i \in 1..Len(procs) : procs[i].gpc = "done" /\ StopCalled(i) = {}

\* C38: with the options of NewSession no call of Shutdown blocks forever,
\* the application's or the one of waitUntilAllComponentsStopped: in the
\* end no call is waiting to send its signal.
C38_ShutdownReturns ==
    (option = DefaultOptions) => <>[](shut.blocked = 0 /\ waiter # "sending")

====
